---- MODULE Spec2Model ----
(***************************************************************************)
(* depsmanager: the diff engine (pkg/diff), the SQLite persistence layer   *)
(* (storage) and the callers that drive them.                              *)
(*                                                                         *)
(* Scores are float64 in the source.  The model counts them in units of    *)
(* 1e-9, so the tolerance eps = 1e-9 is the integer 1 and scores 0, 1, 2   *)
(* stand for s, s + 1e-9, s + 2e-9.                                        *)
(***************************************************************************)
EXTENDS Integers, Sequences, FiniteSets, TLC

VARIABLES
    world,      \* which driver is running: "sequential", "concurrent", "cancel",
                \* "pairs", "diff", "service", "api"
    db,         \* the committed database: projects, dependency, sqlite_sequence
    st,         \* per caller: the storage call in progress and its position
    calls,      \* per caller: number of storage calls that have returned
    dA, dB,     \* inputs of DiffDependencies
    onlyA, onlyB, \* outputs of DiffDependencies
    dPc,        \* position of the diff driver
    sv,         \* the FetchAndStoreProjectDependencies call of the service
    rq          \* the HTTP request an API handler is serving

vars == <<world, db, st, calls, dA, dB, onlyA, onlyB, dPc, sv, rq>>

----------------------------------------------------------------------------
(* Bounds and input domains *)

MaxCalls == 3          \* storage calls made by the single sequential caller
MaxConcCalls == 1      \* storage calls made by each concurrent caller
MaxCancelCalls == 1    \* storage calls made by the caller whose context is cancelled
MaxLen == 2            \* longest dependency list handed to DiffDependencies

eps == 1               \* 1e-9 in model units

Procs == {1, 2}

Dep(n, s, u) == [name |-> n, score |-> s, updated_at |-> u]

\* Dependency values handed to the storage layer.
DepVals ==
    { Dep("x", 0, 0), Dep("x", 1, 0), Dep("x", 2, 0), Dep("y", 0, 0) }

\* Dependency values handed to the diff engine.
DiffVals ==
    { Dep("x", 0, 0), Dep("x", 1, 0), Dep("x", 2, 0), Dep("x", 0, 1),
      Dep("y", 0, 0), Dep("y", 2, 0) }

DepNames == {"x", "y"}

RECURSIVE ListsUpTo(_, _)
ListsUpTo(S, n) ==
    IF n = 0 THEN { <<>> }
    ELSE LET shorter == ListsUpTo(S, n - 1)
         IN  shorter \cup { Append(l, v) : l \in { k \in shorter : Len(k) = n - 1 }, v \in S }

----------------------------------------------------------------------------
(* pkg/diff *)

Abs(x) == IF x < 0 THEN -x ELSE x

\* Variant of floatEq: exact comparison, no tolerance.
floatEqExact(a, b) == a = b

floatEq(a, b) == Abs(a - b) <= eps

equalDep(a, b) ==
    /\ a.name = b.name
    /\ floatEq(a.score, b.score)
    /\ a.updated_at = b.updated_at

HasName(l, n) == \E i \in DOMAIN l : l[i].name = n

\* The map built by "for _, d := range l { m[d.Name] = d }": the last entry
\* of each name wins.
IndexByName(l) ==
    [ n \in { l[i].name : i \in DOMAIN l } |->
        l[ CHOOSE i \in DOMAIN l :
             /\ l[i].name = n
             /\ \A j \in DOMAIN l : l[j].name = n => j <= i ] ]

\* Variant of OnlyIn: the negation of equalDep is dropped.
OnlyInDroppedNot(a, b) ==
    LET inB == IndexByName(b)
        Keep(d) == ~ HasName(b, d.name) \/ equalDep(d, inB[d.name])
    IN  SelectSeq(a, Keep)

OnlyIn(a, b) ==
    LET inB == IndexByName(b)
        Keep(d) == ~ HasName(b, d.name) \/ ~ equalDep(d, inB[d.name])
    IN  SelectSeq(a, Keep)

\* Variant of DiffDependencies: the second loop looks b up in the map of b.
DiffDependenciesSameMap(a, b) == [ onlyA |-> OnlyIn(a, b), onlyB |-> OnlyIn(b, b) ]

DiffDependencies(a, b) == [ onlyA |-> OnlyIn(a, b), onlyB |-> OnlyIn(b, a) ]

----------------------------------------------------------------------------
(* The database: schema of createTable and the SQL statements the storage  *)
(* layer executes, each as a function of the transaction's view of the DB. *)

EmptyDB == [ projects |-> {}, dependency |-> {}, seq |-> 0 ]

ProjectRow(id, n, v, t) == [ id |-> id, name |-> n, version |-> v, updated_at |-> t ]

\* Variant of DependencyRow: score and updated_at bound in the wrong order.
DependencyRowSwapped(pid, d) ==
    [ project_id |-> pid, dependency_name |-> d.name, score |-> d.updated_at, updated_at |-> d.score ]

DependencyRow(pid, d) ==
    [ project_id |-> pid, dependency_name |-> d.name, score |-> d.score, updated_at |-> d.updated_at ]

\* Variant of getProjectIDTX: the WHERE clause lacks the version.
getProjectIDTXByName(w, n, v) ==
    IF \E r \in w.projects : r.name = n
    THEN (CHOOSE r \in w.projects : r.name = n).id
    ELSE 0

\* SELECT id FROM projects WHERE name = ? AND version = ?  (0: sql.ErrNoRows)
getProjectIDTX(w, n, v) ==
    IF \E r \in w.projects : r.name = n /\ r.version = v
    THEN (CHOOSE r \in w.projects : r.name = n /\ r.version = v).id
    ELSE 0

\* SELECT id FROM projects WHERE name = ? AND version = ?  on the pool
getProjectID(d, n, v) ==
    IF \E r \in d.projects : r.name = n /\ r.version = v
    THEN (CHOOSE r \in d.projects : r.name = n /\ r.version = v).id
    ELSE 0

\* Variant of InsertOrIgnoreProject: the table has no UNIQUE(name, version).
InsertProjectNoUnique(w, n, v, t) ==
    [ db |-> [ w EXCEPT !.projects = @ \cup { ProjectRow(w.seq + 1, n, v, t) },
                        !.seq = @ + 1 ],
      affected |-> 1, id |-> w.seq + 1 ]

\* INSERT OR IGNORE INTO projects(name, updated_at, version): UNIQUE(name, version)
\* makes the statement a no-op when the pair exists.
InsertOrIgnoreProject(w, n, v, t) ==
    IF \E r \in w.projects : r.name = n /\ r.version = v
    THEN [ db |-> w, affected |-> 0, id |-> 0 ]
    ELSE [ db |-> [ w EXCEPT !.projects = @ \cup { ProjectRow(w.seq + 1, n, v, t) },
                             !.seq = @ + 1 ],
           affected |-> 1, id |-> w.seq + 1 ]

\* INSERT INTO dependency(...): fails on UNIQUE(project_id, dependency_name)
\* and on the foreign key to projects(id).
InsertDependencyRow(w, pid, d) ==
    IF \/ \E r \in w.dependency : r.project_id = pid /\ r.dependency_name = d.name
       \/ ~ \E r \in w.projects : r.id = pid
    THEN [ db |-> w, ok |-> FALSE ]
    ELSE [ db |-> [ w EXCEPT !.dependency = @ \cup { DependencyRow(pid, d) } ], ok |-> TRUE ]

\* Variant of DeleteDependencyRow: the WHERE clause lacks the dependency name.
DeleteDependencyRowAnyName(w, pid, n) ==
    LET hit == { r \in w.dependency : r.project_id = pid }
    IN  [ db |-> [ w EXCEPT !.dependency = @ \ hit ], affected |-> Cardinality(hit) ]

\* DELETE FROM dependency WHERE project_id = ? AND dependency_name = ?
DeleteDependencyRow(w, pid, n) ==
    LET hit == { r \in w.dependency : r.project_id = pid /\ r.dependency_name = n }
    IN  [ db |-> [ w EXCEPT !.dependency = @ \ hit ], affected |-> Cardinality(hit) ]

\* Variant of UpdateDependencyRow: the WHERE clause lacks the project id.
UpdateDependencyRowAnyProject(w, pid, d) ==
    LET hit == { r \in w.dependency : r.dependency_name = d.name }
    IN  [ db |-> [ w EXCEPT !.dependency = (@ \ hit) \cup { DependencyRow(r.project_id, d) : r \in hit } ],
          affected |-> Cardinality(hit) ]

\* Variant of UpdateDependencyRow: updated_at is not in the SET clause.
UpdateDependencyRowScoreOnly(w, pid, d) ==
    LET hit == { r \in w.dependency : r.project_id = pid /\ r.dependency_name = d.name }
    IN  [ db |-> [ w EXCEPT !.dependency =
                     (@ \ hit) \cup { [ r EXCEPT !.score = d.score ] : r \in hit } ],
          affected |-> Cardinality(hit) ]

\* UPDATE dependency SET score = ?, updated_at = ? WHERE project_id = ? AND dependency_name = ?
UpdateDependencyRow(w, pid, d) ==
    LET hit == { r \in w.dependency : r.project_id = pid /\ r.dependency_name = d.name }
    IN  [ db |-> [ w EXCEPT !.dependency = (@ \ hit) \cup { DependencyRow(pid, d) : r \in hit } ],
          affected |-> Cardinality(hit) ]

\* Variant of UpdateProjectTimestamp: the WHERE clause is missing.
UpdateEveryTimestamp(w, pid, t) ==
    [ w EXCEPT !.projects = { [ r EXCEPT !.updated_at = t ] : r \in @ } ]

\* UPDATE projects SET updated_at = ? WHERE id = ?
UpdateProjectTimestamp(w, pid, t) ==
    [ w EXCEPT !.projects = { IF r.id = pid THEN [ r EXCEPT !.updated_at = t ] ELSE r : r \in @ } ]

\* Variant of DeleteProjectRow: foreign keys are off, nothing cascades.
DeleteProjectRowNoCascade(w, pid) ==
    [ w EXCEPT !.projects = { r \in @ : r.id # pid } ]

\* Variant of DeleteProjectRow: the foreign key is ON DELETE SET NULL.
DeleteProjectRowSetNull(w, pid) ==
    [ w EXCEPT !.projects = { r \in @ : r.id # pid },
               !.dependency = { IF r.project_id = pid THEN [ r EXCEPT !.project_id = 0 ] ELSE r
                                  : r \in @ } ]

\* DELETE FROM projects WHERE id = ?  with ON DELETE CASCADE on dependency.project_id
DeleteProjectRow(w, pid) ==
    [ w EXCEPT !.projects = { r \in @ : r.id # pid },
               !.dependency = { r \in @ : r.project_id # pid } ]

\* SELECT dependency_name, score, updated_at FROM dependency WHERE project_id = ?
SelectDependencies(w, pid) ==
    { Dep(r.dependency_name, r.score, r.updated_at) : r \in { q \in w.dependency : q.project_id = pid } }

\* The dependency names of the model in ascending order.
NameOrder == << "x", "y" >>

\* Variant of SelectNamesByScore: the SELECT lacks DISTINCT.
SelectNamesByScoreAll(d, low, high) ==
    LET rows == { q \in d.dependency : low <= q.score /\ q.score <= high }
        Rep(n) == [ i \in 1 .. Cardinality({ q \in rows : q.dependency_name = n }) |-> n ]
    IN  Rep(NameOrder[1]) \o Rep(NameOrder[2])

\* SELECT DISTINCT dependency_name FROM dependency
\* WHERE score BETWEEN ? AND ? ORDER BY dependency_name
SelectNamesByScore(d, low, high) ==
    LET rows == { q \in d.dependency : low <= q.score /\ q.score <= high }
        Hit(n) == \E q \in rows : q.dependency_name = n
    IN  SelectSeq(NameOrder, Hit)

\* The (name, version) keys of the model in the order of ORDER BY p.name, p.version.
KeyOrder == << <<"p", "1">>, <<"p", "2">> >>

Project(n, t, v) == [ name |-> n, updated_at |-> t, version |-> v ]

\* The rows of projects JOIN dependency ON d.project_id = p.id
\* WHERE d.dependency_name = ? with the key k.
JoinedRows(d, depName, k) ==
    { pr \in d.projects :
        /\ pr.name = k[1] /\ pr.version = k[2]
        /\ \E q \in d.dependency : q.project_id = pr.id /\ q.dependency_name = depName }

\* Variant of SelectProjectsByDependency: the WHERE clause is missing.
SelectProjectsOfAnyDependency(d, depName) ==
    LET Rows(k) == { pr \in d.projects :
                       /\ pr.name = k[1] /\ pr.version = k[2]
                       /\ \E q \in d.dependency : q.project_id = pr.id }
        Hit(k) == Rows(k) # {}
        keys == SelectSeq(KeyOrder, Hit)
    IN  [ i \in 1 .. Len(keys) |->
            LET pr == CHOOSE r \in Rows(keys[i]) : TRUE
            IN  Project(pr.name, pr.updated_at, pr.version) ]

\* SELECT DISTINCT p.name, p.updated_at, p.version FROM projects p
\* JOIN dependency d ON d.project_id = p.id WHERE d.dependency_name = ?
\* ORDER BY p.name, p.version
SelectProjectsByDependency(d, depName) ==
    LET Hit(k) == JoinedRows(d, depName, k) # {}
        keys == SelectSeq(KeyOrder, Hit)
    IN  [ i \in 1 .. Len(keys) |->
            LET pr == CHOOSE r \in JoinedRows(d, depName, keys[i]) : TRUE
            IN  Project(pr.name, pr.updated_at, pr.version) ]

\* The orders in which a query may return a set of rows.
RowOrders(S) ==
    { s \in [ 1 .. Cardinality(S) -> S ] : \A i, j \in 1 .. Cardinality(S) : i # j => s[i] # s[j] }

----------------------------------------------------------------------------
(* The remote metadata service (deps.dev) as the service sees it, and the  *)
(* pure steps of FetchAndStoreProjectDependencies.                         *)

MaxResp == 2           \* longest node list / response list of a remote call

SystemNPM == "npm"

NoErr == [ stage |-> "", cause |-> "", wrapped |-> FALSE ]

Failure(stage, cause, wrapped) == [ stage |-> stage, cause |-> cause, wrapped |-> wrapped ]

\* What a DepsClient call can fail with: 404 or anything else.
ClientErrors == { "ErrProjectNotFound", "bad response" }

Node(rel, sys, n, v) == [ relation |-> rel, system |-> sys, name |-> n, version |-> v ]

\* The last node has another system and another name than ("npm", "x"), and
\* the same concatenation of the two.
NodeVals ==
    { Node("SELF", "npm", "p", "1"), Node("DIRECT", "npm", "x", "1"),
      Node("INDIRECT", "npm", "x", "2"), Node("DIRECT", "npm", "y", "1"),
      Node("DIRECT", "np", "mx", "1") }

Related(id, t) == [ id |-> id, relationType |-> t ]

RelatedLists ==
    { <<>>,
      << Related("r1", "ISSUE_TRACKER") >>,
      << Related("r1", "SOURCE_REPO") >>,
      << Related("r2", "SOURCE_REPO") >>,
      << Related("r1", "SOURCE_REPO"), Related("r2", "SOURCE_REPO") >>,
      << Related("r2", "SOURCE_REPO"), Related("r1", "SOURCE_REPO") >>,
      << Related("r1", "ISSUE_TRACKER"), Related("r2", "SOURCE_REPO") >> }

VersionResp(n, rel) == [ name |-> n, relatedProjects |-> rel ]

VersionVals == { VersionResp(n, rel) : n \in DepNames, rel \in RelatedLists }

\* time.Time counted in days since January 1, year 1: the zero Time is 0
\* and Unix() subtracts the distance to 1970.
unixToInternal == 719162

IsZero(t) == t = 0

Unix(t) == t - unixToInternal

DateVals == { 0, unixToInternal + 5 }

ProjectResp(id, score, date) == [ id |-> id, overallScore |-> score, date |-> date ]

ProjectVals ==
    { ProjectResp(id, 0, 0) : id \in {"r1", "r2"} } \cup
    { ProjectResp(id, sc, unixToInternal + 5) : id \in {"r1", "r2"}, sc \in {0, 2} }

\* Lines 67-84: drop SELF nodes, keep the first node of each
\* System + Name key.
RECURSIVE FilterNodes(_, _, _)
FilterNodes(nodes, i, seen) ==
    IF i > Len(nodes) THEN <<>>
    ELSE LET d == nodes[i]
             key == d.system \o d.name
         IN  IF d.relation = "SELF" \/ key \in seen
             THEN FilterNodes(nodes, i + 1, seen)
             ELSE << [ system |-> d.system, name |-> d.name, version |-> d.version ] >>
                  \o FilterNodes(nodes, i + 1, seen \cup {key})

\* Variant of FirstSourceRepo: the scan does not stop at the first match.
LastSourceRepo(rel) ==
    LET hits == { i \in DOMAIN rel : rel[i].relationType = "SOURCE_REPO" }
    IN  IF hits = {} THEN 0 ELSE CHOOSE i \in hits : \A j \in hits : j <= i

\* Lines 101-106: index of the related project the inner loop stops at
\* (0: the loop ends without a match).
FirstSourceRepo(rel) ==
    LET hits == { i \in DOMAIN rel : rel[i].relationType = "SOURCE_REPO" }
    IN  IF hits = {} THEN 0 ELSE CHOOSE i \in hits : \A j \in hits : i <= j

\* The repository a version response is mapped to ("": none).
RepoOf(b) ==
    LET i == FirstSourceRepo(b.relatedProjects)
    IN  IF i = 0 THEN "" ELSE b.relatedProjects[i].id

\* Lines 99-107: deps[id] = names of the responses mapped to id, in
\* response order.
MapSourceRepos(batch) ==
    LET ids == { RepoOf(batch[i]) : i \in { j \in DOMAIN batch : FirstSourceRepo(batch[j].relatedProjects) # 0 } }
        NamesFor(id) ==
            LET Hit(i) == FirstSourceRepo(batch[i].relatedProjects) # 0 /\ RepoOf(batch[i]) = id
                idx == SelectSeq([ i \in 1 .. Len(batch) |-> i ], Hit)
            IN  [ k \in 1 .. Len(idx) |-> batch[idx[k]].name ]
    IN  [ id \in ids |-> NamesFor(id) ]

\* Variant of ScorecardUnix: the IsZero check is missing.
ScorecardUnixNoZeroCheck(date) == Unix(date)

\* Lines 131-134
ScorecardUnix(date) == IF IsZero(date) THEN 0 ELSE Unix(date)

\* Variant of EntriesOf: only the first name of the repository is emitted.
EntriesOfFirstName(pb, deps) ==
    IF pb.id \in DOMAIN deps
    THEN << Dep(deps[pb.id][1], pb.overallScore, ScorecardUnix(pb.date)) >>
    ELSE <<>>

\* Lines 128-143: the entries one project response contributes.
EntriesOf(pb, deps) ==
    IF pb.id \in DOMAIN deps
    THEN [ k \in 1 .. Len(deps[pb.id]) |->
             Dep(deps[pb.id][k], pb.overallScore, ScorecardUnix(pb.date)) ]
    ELSE <<>>

\* Lines 126-144
RECURSIVE dependencyScores(_, _, _)
dependencyScores(responses, i, deps) ==
    IF i > Len(responses) THEN <<>>
    ELSE EntriesOf(responses[i], deps) \o dependencyScores(responses, i + 1, deps)

\* Variant of AfterNodes: the versions batch is requested even when empty.
AfterNodesAlwaysBatch(projectDependencies) == "getVersionsBatch"

\* Lines 87-92
AfterNodes(projectDependencies) ==
    IF Len(projectDependencies) = 0 THEN "store" ELSE "getVersionsBatch"

IdleService ==
    [ pc |-> "idle", projectName |-> "", version |-> "",
      nodes |-> <<>>, projectDependencies |-> <<>>,
      batch |-> <<>>, deps |-> <<>>, uniqueDepsLinks |-> <<>>,
      projectsBatch |-> <<>>, dependencyScores |-> <<>>,
      now |-> 0, remote |-> <<>>, failed |-> "", stores |-> <<>>, err |-> NoErr,
      pre |-> EmptyDB ]

----------------------------------------------------------------------------
(* The HTTP API: the handlers of service.API and pkg/errors.HandleError.   *)

Handlers ==
    { "FetchProject", "DeleteProject", "ListDependencies", "ListProjects",
      "ProjectVersions", "ProjectByDependency", "DependenciesByScore",
      "AddDependency", "ModifyDependency", "DeleteDependency" }

\* Handlers that begin with json.NewDecoder(r.Body).Decode(&req).
DecodesJSON(h) == h \notin { "ListProjects", "ProjectVersions" }

\* Handlers that reject an empty field of the request.
HasRequired(h) == h \notin { "ListProjects", "DependenciesByScore" }

\* Handlers that test the service error with
\* errors.Is(err, depsmanager.ErrProjectNotFound).
ChecksNotFound(h) == h # "ListProjects"

\* Handlers that test it with errors.Is(err, depsmanager.ErrDependencyAlreadyExists).
ChecksConflict(h) == h = "AddDependency"

\* Handlers that encode a response body after the service call.
EncodesResponse(h) ==
    h \in { "ListDependencies", "ListProjects", "ProjectVersions", "ProjectByDependency",
            "DependenciesByScore" }

\* The status a handler writes itself (200 when it only encodes a body).
SuccessStatus(h) ==
    CASE h \in { "FetchProject", "AddDependency" } -> 201
      [] h \in { "DeleteProject", "DeleteDependency" } -> 204
      [] OTHER -> 200

\* The errors a Service method can return: a sentinel of depsmanager.go,
\* bare or wrapped with %w, or any other error.
ServiceErrors ==
    { Failure("service", c, w) :
        c \in { "ErrProjectNotFound", "ErrDependencyNotFound", "ErrDependencyAlreadyExists", "error" },
        w \in BOOLEAN }

\* errors.Is(err, target): the chain of %w wrappers is followed.
ErrorsIs(e, target) == e.cause = target

\* Variant of HandlerError: no handler tests for ErrProjectNotFound.
HandlerErrorNoNotFound(h, e) ==
    IF ChecksConflict(h) /\ ErrorsIs(e, "ErrDependencyAlreadyExists") THEN "ConflictRequest"
    ELSE "Internal"

\* The customErr value a handler returns for the service error e.
HandlerError(h, e) ==
    IF ChecksNotFound(h) /\ ErrorsIs(e, "ErrProjectNotFound") THEN "NotFoundRequest"
    ELSE IF ChecksConflict(h) /\ ErrorsIs(e, "ErrDependencyAlreadyExists") THEN "ConflictRequest"
    ELSE "Internal"

\* HandleError: errors.As against InternalErr, BadRequestErr, NotFoundErr in
\* this order; every other error, ConflictRequest included, is "unknown".
StatusOfError(kind) ==
    CASE kind = "Internal" -> 500
      [] kind = "BadRequest" -> 400
      [] kind = "NotFoundRequest" -> 404
      [] OTHER -> 500

IdleRequest ==
    [ pc |-> "idle", handler |-> "", json |-> "", required |-> "",
      called |-> FALSE, serviceErr |-> NoErr, err |-> "", status |-> 0 ]

----------------------------------------------------------------------------
(* Callers of the storage layer *)

Idle ==
    [ op |-> "idle", pc |-> "idle", name |-> "", version |-> "", updatedAt |-> 0,
      deps |-> <<>>, dep |-> Dep("", 0, 0), score |-> 0,
      tx |-> FALSE, lock |-> "none", w |-> EmptyDB,
      projectId |-> 0, currentDeps |-> <<>>, toDel |-> <<>>, toAdd |-> <<>>,
      mode |-> "", err |-> "", out |-> <<>>, log |-> <<>>, pre |-> EmptyDB,
      cancelled |-> FALSE ]

ActiveProcs == IF world = "concurrent" THEN Procs ELSE {1}

CallLimit ==
    CASE world = "concurrent" -> MaxConcCalls
      [] world = "cancel" -> MaxCancelCalls
      [] OTHER -> MaxCalls

Keys ==
    IF world = "concurrent" THEN { <<"p", "1">> }
    ELSE { <<"p", "1">>, <<"p", "2">> }

Times == {1, 2}

DepLists ==
    IF world = "concurrent" THEN { <<>>, << Dep("x", 0, 0) >>, << Dep("y", 0, 0) >> }
    ELSE ListsUpTo(DepVals, 2)

\* Dependency values of the single-row edits.
DepArgs ==
    IF world = "concurrent" THEN { Dep("x", 2, 0), Dep("y", 0, 0) }
    ELSE DepVals \cup { Dep("y", 0, 1) }

\* Scores asked of GetDependenciesByExactScore.
ScoreArgs == IF world = "concurrent" THEN {0} ELSE {0, 3}

\* Dependency names asked of GetProjectsByDependency.
DepNameArgs == IF world = "concurrent" THEN {"x"} ELSE DepNames

\* Caller 1 makes up to CallLimit calls; the concurrent caller 2 makes the
\* one call that interferes with them.
CallsAllowed(p) == IF world = "concurrent" /\ p # 1 THEN 1 ELSE CallLimit

CanCall(p) ==
    /\ world \in {"sequential", "concurrent", "cancel"}
    /\ p \in ActiveProcs
    /\ st[p].op = "idle"
    /\ calls[p] < CallsAllowed(p)

Enter(p, s) ==
    /\ st' = [ st EXCEPT ![p] = [ s EXCEPT !.pre = db ] ]
    /\ UNCHANGED <<world, db, calls, dA, dB, onlyA, onlyB, dPc, sv, rq>>

CallStoreDependencies(p) ==
    /\ CanCall(p)
    /\ \E k \in Keys, t \in Times, l \in DepLists :
         Enter(p, [ Idle EXCEPT !.op = "StoreDependencies", !.pc = "begin",
                                !.name = k[1], !.version = k[2], !.updatedAt = t, !.deps = l ])

CallDeleteProject(p) ==
    /\ CanCall(p)
    /\ \E k \in Keys :
         Enter(p, [ Idle EXCEPT !.op = "DeleteProject", !.pc = "begin",
                                !.name = k[1], !.version = k[2] ])

CallAddDependency(p) ==
    /\ CanCall(p)
    /\ \E k \in Keys, d \in DepArgs :
         Enter(p, [ Idle EXCEPT !.op = "AddDependency", !.pc = "begin",
                                !.name = k[1], !.version = k[2], !.dep = d ])

CallUpdateDependency(p) ==
    /\ CanCall(p)
    /\ \E k \in Keys, d \in DepArgs :
         Enter(p, [ Idle EXCEPT !.op = "UpdateDependency", !.pc = "begin",
                                !.name = k[1], !.version = k[2], !.dep = d ])

CallDeleteDependency(p) ==
    /\ CanCall(p)
    /\ \E k \in Keys, n \in DepNames :
         Enter(p, [ Idle EXCEPT !.op = "DeleteDependency", !.pc = "begin",
                                !.name = k[1], !.version = k[2], !.dep = Dep(n, 0, 0) ])

CallListProjectDependencies(p) ==
    /\ CanCall(p)
    /\ \E k \in Keys :
         Enter(p, [ Idle EXCEPT !.op = "ListProjectDependencies", !.pc = "l_getProjectID",
                                !.name = k[1], !.version = k[2] ])

CallGetDependenciesByExactScore(p) ==
    /\ CanCall(p)
    /\ \E sc \in ScoreArgs :
         Enter(p, [ Idle EXCEPT !.op = "GetDependenciesByExactScore", !.pc = "s_query",
                                !.score = sc ])

CallGetProjectsByDependency(p) ==
    /\ CanCall(p)
    /\ \E n \in DepNameArgs :
         Enter(p, [ Idle EXCEPT !.op = "GetProjectsByDependency", !.pc = "p_query",
                                !.dep = Dep(n, 0, 0) ])

----------------------------------------------------------------------------
(* SQLite's file locks, as far as the callers can observe them: a          *)
(* transaction takes SHARED at its first read and RESERVED at its first    *)
(* write; only one connection holds RESERVED; a commit needs every other   *)
(* connection to hold no lock.  A statement that cannot get its lock waits *)
(* (busy_timeout) or fails (StatementError).                               *)

CanWrite(p) == \A q \in Procs \ {p} : st[q].lock # "reserved"

\* Variant of CanCommit: the commit does not wait for the readers.
CanCommitAlways(p) == TRUE

CanCommit(p) == \A q \in Procs \ {p} : st[q].lock = "none"

\* Variant of CtxLive: the statements do not look at the context.
CtxLiveAlways(s) == TRUE

\* The context of the call is not done.  BeginTx, the ...Context statements
\* and tx.Commit() return an error once it is; tx.Exec and stmt.Exec run
\* with context.Background() and work until database/sql has rolled the
\* transaction back.
CtxLive(s) == ~ s.cancelled

\* tx.PrepareContext(ctx) has run: an INSERT INTO dependency was executed.
Prepared(s) == \E i \in DOMAIN s.log : s.log[i][1] = "insert"

\* What the transaction of p sees: the committed database until its first
\* statement, its own copy afterwards.
View(p) == IF st[p].lock = "none" THEN db ELSE st[p].w

\* The call returns e; the deferred tx.Rollback() drops whatever the
\* transaction has not committed.
Finished(s, e) ==
    [ s EXCEPT !.pc = "done", !.err = e, !.tx = FALSE, !.lock = "none", !.w = EmptyDB,
               !.projectId = 0, !.currentDeps = <<>>, !.toDel = <<>>, !.toAdd = <<>> ]

\* Variant of Rollback: the deferred call commits what the transaction did.
RollbackCommits(committed, copy) == copy

\* tx.Rollback(): the transaction's copy is discarded.
Rollback(committed, copy) == committed

Step(p, s) ==
    /\ st' = [ st EXCEPT ![p] = s ]
    /\ UNCHANGED <<world, db, calls, dA, dB, onlyA, onlyB, dPc, sv, rq>>

\* The call returns the error e and its deferred tx.Rollback() runs.
Abort(p, e) ==
    /\ st' = [ st EXCEPT ![p] = Finished(st[p], e) ]
    /\ db' = Rollback(db, View(p))
    /\ UNCHANGED <<world, calls, dA, dB, onlyA, onlyB, dPc, sv, rq>>

\* s.db.BeginTx(ctx, nil)
BeginTx(p) ==
    /\ st[p].pc \in {"begin", "u_begin"}
    /\ CtxLive(st[p])
    /\ Step(p, [ st[p] EXCEPT !.tx = TRUE,
                   !.pc = IF st[p].pc = "u_begin" THEN "getProjectID"
                          ELSE IF st[p].op = "StoreDependencies" THEN "insertProject"
                          ELSE "getProjectID" ])

\* StoreDependencies: INSERT OR IGNORE INTO projects, RowsAffected, LastInsertId
StoreDependencies_InsertProject(p) ==
    /\ st[p].pc = "insertProject"
    /\ CanWrite(p)
    /\ LET s == st[p]
           r == InsertOrIgnoreProject(View(p), s.name, s.version, s.updatedAt)
       IN  Step(p, IF r.affected = 0
                   THEN [ s EXCEPT !.lock = "reserved", !.w = r.db, !.mode = "update",
                                   !.pc = "rollback" ]
                   ELSE [ s EXCEPT !.lock = "reserved", !.w = r.db, !.mode = "insert",
                                   !.projectId = r.id, !.toAdd = s.deps,
                                   !.pc = IF s.deps = <<>> THEN "commit" ELSE "insertDeps" ])

\* StoreDependencies: tx.Rollback() before handing over to UpdateProject
StoreDependencies_Rollback(p) ==
    /\ st[p].pc = "rollback"
    /\ st' = [ st EXCEPT ![p] = [ @ EXCEPT !.tx = FALSE, !.lock = "none", !.w = EmptyDB,
                                            !.pc = "u_begin" ] ]
    /\ db' = Rollback(db, View(p))
    /\ UNCHANGED <<world, calls, dA, dB, onlyA, onlyB, dPc, sv, rq>>

\* getProjectIDTX inside the transaction of UpdateProject, DeleteProject,
\* AddDependency, DeleteDependency, UpdateDependency
GetProjectIDTX(p) ==
    /\ st[p].pc = "getProjectID"
    /\ CtxLive(st[p])
    /\ LET s == st[p]
           v == View(p)
           id == getProjectIDTX(v, s.name, s.version)
           held == [ s EXCEPT !.lock = IF @ = "none" THEN "shared" ELSE @, !.w = v,
                              !.projectId = id ]
       IN  IF id = 0 THEN Abort(p, "ErrProjectNotFound")
           ELSE Step(p, [ held EXCEPT !.pc =
                            CASE s.op = "StoreDependencies" -> "selectDeps"
                              [] s.op = "DeleteProject" -> "deleteProject"
                              [] s.op = "AddDependency" -> "addDep"
                              [] s.op = "DeleteDependency" -> "delDep"
                              [] OTHER -> "updDep" ])

\* UpdateProject: load the stored dependencies of the project
UpdateProject_SelectDependencies(p) ==
    /\ st[p].pc = "selectDeps"
    /\ CtxLive(st[p])
    /\ \E rows \in RowOrders(SelectDependencies(st[p].w, st[p].projectId)) :
         Step(p, [ st[p] EXCEPT !.currentDeps = rows, !.pc = "updateTs" ])

\* UpdateProject: UPDATE projects SET updated_at, then DiffDependencies
UpdateProject_UpdateTimestamp(p) ==
    /\ st[p].pc = "updateTs"
    /\ CanWrite(p)
    /\ LET s == st[p]
           d == DiffDependencies(s.currentDeps, s.deps)
       IN  Step(p, [ s EXCEPT !.lock = "reserved",
                       !.w = UpdateProjectTimestamp(s.w, s.projectId, s.updatedAt),
                       !.toDel = d.onlyA, !.toAdd = d.onlyB,
                       !.pc = IF d.onlyA # <<>> THEN "deleteDeps"
                              ELSE IF d.onlyB # <<>> THEN "insertDeps"
                              ELSE "commit" ])

\* deleteDependenciesFromProject: one DELETE per entry of toDel
deleteDependenciesFromProject(p) ==
    /\ st[p].pc = "deleteDeps"
    /\ CtxLive(st[p])
    /\ LET s == st[p]
           d == Head(s.toDel)
           r == DeleteDependencyRow(s.w, s.projectId, d.name)
       IN  Step(p, [ s EXCEPT !.w = r.db, !.toDel = Tail(@),
                       !.log = Append(@, <<"delete", d.name>>),
                       !.pc = IF Tail(s.toDel) # <<>> THEN "deleteDeps"
                              ELSE IF s.toAdd # <<>> THEN "insertDeps"
                              ELSE "commit" ])

\* StoreDependencies / UpdateProject: one INSERT INTO dependency per entry
InsertDependencies(p) ==
    /\ st[p].pc = "insertDeps"
    /\ CtxLive(st[p]) \/ Prepared(st[p])
    /\ LET s == st[p]
           d == Head(s.toAdd)
           r == InsertDependencyRow(s.w, s.projectId, d)
       IN  IF ~ r.ok THEN Abort(p, "constraint")
           ELSE Step(p, [ s EXCEPT !.w = r.db, !.toAdd = Tail(@),
                            !.log = Append(@, <<"insert", d.name>>),
                            !.pc = IF Tail(s.toAdd) # <<>> THEN "insertDeps" ELSE "commit" ])

\* DeleteProject: DELETE FROM projects WHERE id = ?
DeleteProject_Exec(p) ==
    /\ st[p].pc = "deleteProject"
    /\ CtxLive(st[p])
    /\ CanWrite(p)
    /\ Step(p, [ st[p] EXCEPT !.lock = "reserved",
                   !.w = DeleteProjectRow(st[p].w, st[p].projectId), !.pc = "commit" ])

\* AddDependency: INSERT INTO dependency, RowsAffected.  A plain INSERT either
\* fails or inserts its row, so "aff == 0" (ErrDependencyAlreadyExists) has
\* no outcome of the statement that leads to it.
AddDependency_Exec(p) ==
    /\ st[p].pc = "addDep"
    /\ CtxLive(st[p])
    /\ CanWrite(p)
    /\ LET s == st[p]
           r == InsertDependencyRow(s.w, s.projectId, s.dep)
       IN  IF ~ r.ok THEN Abort(p, "constraint")
           ELSE Step(p, [ s EXCEPT !.lock = "reserved", !.w = r.db, !.pc = "commit" ])

\* DeleteDependency: DELETE FROM dependency, RowsAffected
DeleteDependency_Exec(p) ==
    /\ st[p].pc = "delDep"
    /\ CtxLive(st[p])
    /\ CanWrite(p)
    /\ LET s == st[p]
           r == DeleteDependencyRow(s.w, s.projectId, s.dep.name)
       IN  IF r.affected = 0 THEN Abort(p, "ErrDependencyNotFound")
           ELSE Step(p, [ s EXCEPT !.lock = "reserved", !.w = r.db, !.pc = "commit" ])

\* UpdateDependency: UPDATE dependency, RowsAffected
UpdateDependency_Exec(p) ==
    /\ st[p].pc = "updDep"
    /\ CtxLive(st[p])
    /\ CanWrite(p)
    /\ LET s == st[p]
           r == UpdateDependencyRow(s.w, s.projectId, s.dep)
       IN  IF r.affected = 0 THEN Abort(p, "ErrDependencyNotFound")
           ELSE Step(p, [ s EXCEPT !.lock = "reserved", !.w = r.db, !.pc = "commit" ])

\* tx.Commit(): the transaction's copy becomes the database
Commit(p) ==
    /\ st[p].pc = "commit"
    /\ CtxLive(st[p])
    /\ CanCommit(p)
    /\ db' = st[p].w
    /\ st' = [ st EXCEPT ![p] = Finished(st[p], "") ]
    /\ UNCHANGED <<world, calls, dA, dB, onlyA, onlyB, dPc, sv, rq>>

\* ListProjectDependencies: getProjectID on the pool, outside any transaction
ListProjectDependencies_GetProjectID(p) ==
    /\ st[p].pc = "l_getProjectID"
    /\ LET id == getProjectID(db, st[p].name, st[p].version)
       IN  IF id = 0 THEN Abort(p, "ErrProjectNotFound")
           ELSE Step(p, [ st[p] EXCEPT !.projectId = id, !.pc = "l_query" ])

\* ListProjectDependencies: the SELECT on dependency and the scan of its rows
ListProjectDependencies_Query(p) ==
    /\ st[p].pc = "l_query"
    /\ \E rows \in RowOrders(SelectDependencies(db, st[p].projectId)) :
         Step(p, [ Finished(st[p], "") EXCEPT !.out = rows ])

\* GetDependenciesByExactScore: the range query on the pool and the scan of
\* its rows
GetDependenciesByExactScore_Query(p) ==
    /\ st[p].pc = "s_query"
    /\ LET low == st[p].score - eps
           high == st[p].score + eps
       IN  Step(p, [ Finished(st[p], "") EXCEPT !.out = SelectNamesByScore(db, low, high) ])

\* GetProjectsByDependency: the join on the pool, the scan of its rows and
\* the test of len(projects)
GetProjectsByDependency_Query(p) ==
    /\ st[p].pc = "p_query"
    /\ LET projects == SelectProjectsByDependency(db, st[p].dep.name)
       IN  IF Len(projects) = 0 THEN Abort(p, "ErrProjectNotFound")
           ELSE Step(p, [ Finished(st[p], "") EXCEPT !.out = projects ])

\* Any statement (BeginTx, Exec, Query, Rollback, Commit) returns an error:
\* cancelled context, SQLITE_BUSY after busy_timeout, I/O error.  The call
\* returns the wrapped error and the deferred Rollback runs.
StatementError(p) ==
    /\ st[p].pc \notin {"idle", "done"}
    /\ Abort(p, "error")

\* The caller takes the result.
Return(p) ==
    /\ st[p].pc = "done"
    /\ st' = [ st EXCEPT ![p] = Idle ]
    /\ calls' = [ calls EXCEPT ![p] = @ + 1 ]
    /\ UNCHANGED <<world, db, dA, dB, onlyA, onlyB, dPc, sv, rq>>

Next ==
    \E p \in Procs :
        \/ CallStoreDependencies(p)
        \/ CallDeleteProject(p)
        \/ CallAddDependency(p)
        \/ CallUpdateDependency(p)
        \/ CallDeleteDependency(p)
        \/ CallListProjectDependencies(p)
        \/ CallGetDependenciesByExactScore(p)
        \/ CallGetProjectsByDependency(p)
        \/ BeginTx(p)
        \/ StoreDependencies_InsertProject(p)
        \/ StoreDependencies_Rollback(p)
        \/ GetProjectIDTX(p)
        \/ UpdateProject_SelectDependencies(p)
        \/ UpdateProject_UpdateTimestamp(p)
        \/ deleteDependenciesFromProject(p)
        \/ InsertDependencies(p)
        \/ DeleteProject_Exec(p)
        \/ AddDependency_Exec(p)
        \/ DeleteDependency_Exec(p)
        \/ UpdateDependency_Exec(p)
        \/ Commit(p)
        \/ ListProjectDependencies_GetProjectID(p)
        \/ ListProjectDependencies_Query(p)
        \/ GetDependenciesByExactScore_Query(p)
        \/ GetProjectsByDependency_Query(p)
        \/ StatementError(p)
        \/ Return(p)

InitStorage ==
    /\ db = EmptyDB
    /\ st = [ p \in Procs |-> Idle ]
    /\ calls = [ p \in Procs |-> 0 ]
    /\ dA = <<>> /\ dB = <<>> /\ onlyA = <<>> /\ onlyB = <<>> /\ dPc = "off"
    /\ sv = IdleService
    /\ rq = IdleRequest

Init == world = "sequential" /\ InitStorage

Spec == Init /\ [][Next]_vars

\* The database after one StoreDependencies of ("p", "1") with one
\* dependency, built with the statements that call executes.
SeededDB ==
    InsertDependencyRow(InsertOrIgnoreProject(EmptyDB, "p", "1", 1).db, 1, Dep("x", 0, 0)).db

InitConc ==
    /\ world = "concurrent"
    /\ db \in { EmptyDB, SeededDB }
    /\ st = [ p \in Procs |-> Idle ]
    /\ calls = [ p \in Procs |-> 0 ]
    /\ dA = <<>> /\ dB = <<>> /\ onlyA = <<>> /\ onlyB = <<>> /\ dPc = "off"
    /\ sv = IdleService
    /\ rq = IdleRequest

SpecConc == InitConc /\ [][Next]_vars

----------------------------------------------------------------------------
(* A caller whose context is cancelled while its call is in progress.      *)

\* The operations that run in a transaction.
TxOps ==
    { "StoreDependencies", "DeleteProject", "AddDependency", "UpdateDependency",
      "DeleteDependency" }

\* The database after StoreDependencies of ("p", "1") with two dependencies.
TwoDepsDB == InsertDependencyRow(SeededDB, 1, Dep("y", 0, 0)).db

\* ctx is cancelled (or its deadline passes) at any point of the call.
Cancel(p) ==
    /\ world = "cancel"
    /\ st[p].op \in TxOps
    /\ st[p].pc \notin { "idle", "done" }
    /\ ~ st[p].cancelled
    /\ Step(p, [ st[p] EXCEPT !.cancelled = TRUE ])

NextCancel == Next \/ \E p \in Procs : Cancel(p)

InitCancel ==
    /\ world = "cancel"
    /\ db \in { EmptyDB, SeededDB, TwoDepsDB }
    /\ st = [ p \in Procs |-> Idle ]
    /\ calls = [ p \in Procs |-> 0 ]
    /\ dA = <<>> /\ dB = <<>> /\ onlyA = <<>> /\ onlyB = <<>> /\ dPc = "off"
    /\ sv = IdleService
    /\ rq = IdleRequest

SpecCancel == InitCancel /\ [][NextCancel]_vars

----------------------------------------------------------------------------
(* Two callers that call StoreDependencies at the same time: caller 1      *)
(* stores ("p", "1"), caller 2 stores the same pair or ("p", "2").         *)

\* The database after StoreDependencies of ("p", "1") with x and of
\* ("p", "2") with y.
BothDB ==
    InsertDependencyRow(InsertOrIgnoreProject(SeededDB, "p", "2", 1).db, 2, Dep("y", 0, 0)).db

\* Dependency lists of the two records: no name twice.
PairLists ==
    { <<>>, << Dep("x", 0, 0) >>, << Dep("x", 1, 0), Dep("y", 0, 0) >>, << Dep("x", 2, 0) >> }

\* The clock values of the two records (the stored rows carry 1).
Times2 == << 2, 3 >>

\* Both calls are made; neither has executed a statement.
CallBothStoreDependencies ==
    /\ world = "pairs"
    /\ \A p \in Procs : st[p].op = "idle" /\ calls[p] = 0
    /\ \E l1, l2 \in PairLists, k \in DOMAIN KeyOrder :
         st' = [ p \in Procs |->
                   LET key == IF p = 1 THEN KeyOrder[1] ELSE KeyOrder[k]
                   IN  [ Idle EXCEPT !.op = "StoreDependencies", !.pc = "begin",
                                     !.name = key[1], !.version = key[2],
                                     !.updatedAt = Times2[p], !.deps = IF p = 1 THEN l1 ELSE l2,
                                     !.pre = db ] ]
    /\ UNCHANGED <<world, db, calls, dA, dB, onlyA, onlyB, dPc, sv, rq>>

\* The statement p is about to execute cannot get its lock.
Blocked(p) ==
    \/ st[p].pc \in { "insertProject", "updateTs" } /\ ~ CanWrite(p)
    \/ st[p].pc = "commit" /\ ~ CanCommit(p)

\* SQLITE_BUSY ("database is locked"): the statement gives up waiting for
\* its lock, at once when SQLite sees that waiting cannot help, after
\* busy_timeout otherwise.
BusyError(p) ==
    /\ Blocked(p)
    /\ Abort(p, "busy")

NextPairs ==
    \/ CallBothStoreDependencies
    \/ \E p \in Procs :
        \/ BeginTx(p)
        \/ StoreDependencies_InsertProject(p)
        \/ StoreDependencies_Rollback(p)
        \/ GetProjectIDTX(p)
        \/ UpdateProject_SelectDependencies(p)
        \/ UpdateProject_UpdateTimestamp(p)
        \/ deleteDependenciesFromProject(p)
        \/ InsertDependencies(p)
        \/ Commit(p)
        \/ BusyError(p)
        \/ Return(p)

InitPairs ==
    /\ world = "pairs"
    /\ db \in { EmptyDB, SeededDB, BothDB }
    /\ st = [ p \in Procs |-> Idle ]
    /\ calls = [ p \in Procs |-> 0 ]
    /\ dA = <<>> /\ dB = <<>> /\ onlyA = <<>> /\ onlyB = <<>> /\ dPc = "off"
    /\ sv = IdleService
    /\ rq = IdleRequest

SpecPairs == InitPairs /\ [][NextPairs]_vars

----------------------------------------------------------------------------
(* service.FetchAndStoreProjectDependencies: one call, its three remote    *)
(* calls and its StoreDependencies, which runs as caller 1 of the storage. *)

ServiceKeys == { <<"p", "1">> }

ServiceFrame == UNCHANGED <<world, db, st, calls, dA, dB, onlyA, onlyB, dPc, rq>>

CallFetchAndStoreProjectDependencies ==
    /\ world = "service"
    /\ sv.pc = "idle"
    /\ \E k \in ServiceKeys :
         sv' = [ IdleService EXCEPT !.pc = "getProjectDependencies",
                                    !.projectName = k[1], !.version = k[2], !.pre = db ]
    /\ ServiceFrame

\* Variant of RemoteFailed: the failure is swallowed and an empty list stored.
RemoteFailedStoresEmpty(s, stage, cause, wrapped) ==
    [ s EXCEPT !.pc = "store", !.dependencyScores = <<>> ]

\* Variant of RemoteFailed: the failed pipeline is started again.
RemoteFailedRetries(s, stage, cause, wrapped) ==
    [ s EXCEPT !.pc = "getProjectDependencies" ]

\* "if err != nil { return ... }" after a DepsClient call
RemoteFailed(s, stage, cause, wrapped) ==
    [ s EXCEPT !.pc = "done", !.err = Failure(stage, cause, wrapped) ]

\* Lines 62-92
GetProjectDependencies ==
    /\ sv.pc = "getProjectDependencies"
    /\ LET called == [ sv EXCEPT !.remote = Append(@, "GetProjectDependencies") ]
       IN  \/ \E e \in ClientErrors :
                sv' = RemoteFailed([ called EXCEPT !.failed = e ], "GetProjectDependencies", e, TRUE)
           \/ \E nodes \in ListsUpTo(NodeVals, MaxResp) :
                LET pd == FilterNodes(nodes, 1, {})
                IN  sv' = [ called EXCEPT !.nodes = nodes, !.projectDependencies = pd,
                                          !.pc = AfterNodes(pd) ]
    /\ ServiceFrame

\* Line 94: the request of GetVersionsBatch is sent.  The nodes are dead
\* from here on.
GetVersionsBatch_Request ==
    /\ sv.pc = "getVersionsBatch"
    /\ sv' = [ sv EXCEPT !.remote = Append(@, "GetVersionsBatch"), !.nodes = <<>>,
                         !.pc = "versionsBatch" ]
    /\ ServiceFrame

\* Lines 94-119: the response of GetVersionsBatch
GetVersionsBatch ==
    /\ sv.pc = "versionsBatch"
    /\ \/ \E e \in ClientErrors :
            sv' = RemoteFailed([ sv EXCEPT !.failed = e ], "GetVersionsBatch", e, FALSE)
       \/ \E batch \in ListsUpTo(VersionVals, MaxResp) :
            LET deps == MapSourceRepos(batch)
            IN  IF DOMAIN deps = {}
                THEN sv' = [ sv EXCEPT !.projectDependencies = <<>>,
                                      !.batch = batch, !.deps = deps, !.pc = "store" ]
                ELSE \E links \in RowOrders(DOMAIN deps) :
                       sv' = [ sv EXCEPT !.projectDependencies = <<>>,
                                         !.batch = batch, !.deps = deps,
                                         !.uniqueDepsLinks = links,
                                         !.pc = "getProjectsBatch" ]
    /\ ServiceFrame

\* Line 121: the request of GetProjectsBatch is sent.  The versions batch is
\* dead from here on.
GetProjectsBatch_Request ==
    /\ sv.pc = "getProjectsBatch"
    /\ sv' = [ sv EXCEPT !.remote = Append(@, "GetProjectsBatch"), !.batch = <<>>,
                         !.pc = "projectsBatch" ]
    /\ ServiceFrame

\* Lines 121-144: the response of GetProjectsBatch
GetProjectsBatch ==
    /\ sv.pc = "projectsBatch"
    /\ \/ \E e \in ClientErrors :
            sv' = RemoteFailed([ sv EXCEPT !.failed = e ], "GetProjectsBatch", e, FALSE)
       \/ \E resp \in ListsUpTo(ProjectVals, MaxResp) :
            sv' = [ sv EXCEPT !.uniqueDepsLinks = <<>>, !.projectsBatch = resp,
                              !.dependencyScores = dependencyScores(resp, 1, sv.deps),
                              !.pc = "store" ]
    /\ ServiceFrame

\* storeProjectWithDependencies: build the record with tNow().Unix() and
\* call StoreDependencies.  The map and the project responses are dead from
\* here on.
storeProjectWithDependencies ==
    /\ sv.pc = "store"
    /\ st[1].op = "idle"
    /\ \E now \in Times :
         /\ sv' = [ sv EXCEPT !.pc = "storing", !.now = now,
                      !.deps = <<>>, !.projectsBatch = <<>>,
                      !.stores = Append(@, [ name |-> sv.projectName, version |-> sv.version,
                                             updatedAt |-> now, deps |-> sv.dependencyScores ]) ]
         /\ st' = [ st EXCEPT ![1] =
                      [ Idle EXCEPT !.op = "StoreDependencies", !.pc = "begin",
                                    !.name = sv.projectName, !.version = sv.version,
                                    !.updatedAt = now, !.deps = sv.dependencyScores,
                                    !.pre = db ] ]
    /\ UNCHANGED <<world, db, calls, dA, dB, onlyA, onlyB, dPc, rq>>

\* StoreDependencies has returned: its error is wrapped twice and returned.
storeProjectWithDependencies_Return ==
    /\ sv.pc = "storing"
    /\ st[1].pc = "done"
    /\ sv' = [ sv EXCEPT !.pc = "done",
                 !.err = IF st[1].err = "" THEN NoErr
                         ELSE Failure("StoreDependencies", st[1].err, TRUE) ]
    /\ ServiceFrame

NextService ==
    \/ CallFetchAndStoreProjectDependencies
    \/ GetProjectDependencies
    \/ GetVersionsBatch_Request
    \/ GetVersionsBatch
    \/ GetProjectsBatch_Request
    \/ GetProjectsBatch
    \/ storeProjectWithDependencies
    \/ storeProjectWithDependencies_Return
    \/ BeginTx(1)
    \/ StoreDependencies_InsertProject(1)
    \/ StoreDependencies_Rollback(1)
    \/ GetProjectIDTX(1)
    \/ UpdateProject_SelectDependencies(1)
    \/ UpdateProject_UpdateTimestamp(1)
    \/ deleteDependenciesFromProject(1)
    \/ InsertDependencies(1)
    \/ Commit(1)
    \/ StatementError(1)

InitService ==
    /\ world = "service"
    /\ db \in { EmptyDB, SeededDB }
    /\ st = [ p \in Procs |-> Idle ]
    /\ calls = [ p \in Procs |-> 0 ]
    /\ dA = <<>> /\ dB = <<>> /\ onlyA = <<>> /\ onlyB = <<>> /\ dPc = "off"
    /\ sv = IdleService
    /\ rq = IdleRequest

SpecService == InitService /\ [][NextService]_vars

----------------------------------------------------------------------------
(* One HTTP request served by a handler wrapped in HandleError.            *)

ApiFrame == UNCHANGED <<world, db, st, calls, dA, dB, onlyA, onlyB, dPc, sv>>

\* The router hands a request to its handler.
ServeHTTP ==
    /\ world = "api"
    /\ rq.pc = "idle"
    /\ \E h \in Handlers :
         \E j \in (IF DecodesJSON(h) THEN { "bad", "good" } ELSE { "none" }),
            f \in (IF HasRequired(h) THEN { "empty", "set" } ELSE { "none" }) :
             rq' = [ IdleRequest EXCEPT !.pc = "decode", !.handler = h, !.json = j, !.required = f ]
    /\ ApiFrame

\* json.NewDecoder(r.Body).Decode(&req)
Handler_Decode ==
    /\ rq.pc = "decode"
    /\ rq' = IF DecodesJSON(rq.handler) /\ rq.json = "bad"
             THEN [ rq EXCEPT !.pc = "handleError", !.err = "BadRequest" ]
             ELSE [ rq EXCEPT !.pc = "validate" ]
    /\ ApiFrame

\* The checks of the required fields.  A body that did not decode never
\* gets here, and a body that decoded has the fields the JSON gave it.
Handler_Validate ==
    /\ rq.pc = "validate"
    /\ rq' = IF HasRequired(rq.handler) /\ rq.required = "empty"
             THEN [ rq EXCEPT !.pc = "handleError", !.err = "BadRequest" ]
             ELSE [ rq EXCEPT !.pc = "service" ]
    /\ ApiFrame

\* The call of the Service method and the handler's reaction to its result.
Handler_CallService ==
    /\ rq.pc = "service"
    /\ \/ \E e \in ServiceErrors :
            rq' = [ rq EXCEPT !.called = TRUE, !.serviceErr = e,
                              !.err = HandlerError(rq.handler, e), !.pc = "handleError" ]
       \/ rq' = [ rq EXCEPT !.called = TRUE, !.pc = "respond" ]
    /\ ApiFrame

\* w.WriteHeader(...) or json.NewEncoder(w).Encode(resp)
Handler_Respond ==
    /\ rq.pc = "respond"
    /\ \/ rq' = [ rq EXCEPT !.status = SuccessStatus(rq.handler), !.pc = "responded" ]
       \/ /\ EncodesResponse(rq.handler)
          /\ rq' = [ rq EXCEPT !.err = "Internal", !.pc = "handleError" ]
    /\ ApiFrame

\* HandleError: the handler returned an error
HandleError ==
    /\ rq.pc = "handleError"
    /\ rq' = [ rq EXCEPT !.status = StatusOfError(rq.err), !.pc = "responded" ]
    /\ ApiFrame

NextApi ==
    \/ ServeHTTP
    \/ Handler_Decode
    \/ Handler_Validate
    \/ Handler_CallService
    \/ Handler_Respond
    \/ HandleError

InitApi ==
    /\ world = "api"
    /\ db = EmptyDB
    /\ st = [ p \in Procs |-> Idle ]
    /\ calls = [ p \in Procs |-> 0 ]
    /\ dA = <<>> /\ dB = <<>> /\ onlyA = <<>> /\ onlyB = <<>> /\ dPc = "off"
    /\ sv = IdleService
    /\ rq = IdleRequest

SpecApi == InitApi /\ [][NextApi]_vars

----------------------------------------------------------------------------
(* Driver of the diff engine: draw two lists, diff them, then diff a       *)
(* reordering of one side or the two sides exchanged.                      *)

DiffLists == ListsUpTo(DiffVals, MaxLen)

Reorderings(l) ==
    { [ i \in DOMAIN l |-> l[f[i]] ] : f \in RowOrders(DOMAIN l) }

ApplyDiff(a, b, pc) ==
    /\ dA' = a
    /\ dB' = b
    /\ onlyA' = DiffDependencies(a, b).onlyA
    /\ onlyB' = DiffDependencies(a, b).onlyB
    /\ dPc' = pc
    /\ UNCHANGED <<world, db, st, calls, sv, rq>>

Diff ==
    /\ dPc = "input"
    /\ ApplyDiff(dA, dB, "diffed")

ShuffleA ==
    /\ dPc = "diffed"
    /\ \E a \in Reorderings(dA) : a # dA /\ ApplyDiff(a, dB, "shuffled")

ShuffleB ==
    /\ dPc = "diffed"
    /\ \E b \in Reorderings(dB) : b # dB /\ ApplyDiff(dA, b, "shuffled")

Swap ==
    /\ dPc = "diffed"
    /\ ApplyDiff(dB, dA, "swapped")

NextDiff == Diff \/ ShuffleA \/ ShuffleB \/ Swap

InitDiff ==
    /\ world = "diff"
    /\ db = EmptyDB
    /\ st = [ p \in Procs |-> Idle ]
    /\ calls = [ p \in Procs |-> 0 ]
    /\ dA \in DiffLists /\ dB \in DiffLists
    /\ onlyA = <<>> /\ onlyB = <<>> /\ dPc = "input"
    /\ sv = IdleService
    /\ rq = IdleRequest

SpecDiff == InitDiff /\ [][NextDiff]_vars

----------------------------------------------------------------------------
(* Vocabulary of the properties *)

Stored(d, n, v) == \E r \in d.projects : r.name = n /\ r.version = v

\* The dependencies of project (n, v) in database d, as values.
StoredDeps(d, n, v) ==
    { Dep(q.dependency_name, q.score, q.updated_at) :
        q \in { r \in d.dependency :
                  \E pr \in d.projects : pr.id = r.project_id /\ pr.name = n /\ pr.version = v } }

NamesOf(S) == { e.name : e \in S }

ListSet(l) == { l[i] : i \in DOMAIN l }

Logged(s, kind, n) == \E i \in DOMAIN s.log : s.log[i] = <<kind, n>>

Untouched(s, n) == ~ Logged(s, "delete", n) /\ ~ Logged(s, "insert", n)

Returned(s, op) == s.pc = "done" /\ s.op = op

----------------------------------------------------------------------------
(* C1: after a successful StoreDependencies for a project that was already *)
(* stored, the project's stored dependencies have exactly the names of the *)
(* record: stored names absent from the record were deleted, record        *)
(* entries absent from storage were inserted, a stored dependency that     *)
(* differs from the record was replaced by a value of the record, and a    *)
(* stored dependency equal to the record's was neither deleted nor         *)
(* inserted.                                                               *)
C1_ReconcileExistingProject ==
    \A p \in Procs :
        LET s == st[p]
            old == StoredDeps(s.pre, s.name, s.version)
            new == StoredDeps(db, s.name, s.version)
            rec == ListSet(s.deps)
        IN  ( Returned(s, "StoreDependencies") /\ s.err = "" /\ Stored(s.pre, s.name, s.version) )
            =>
            /\ NamesOf(new) = NamesOf(rec)
            /\ Cardinality(new) = Cardinality(NamesOf(new))
            /\ \A o \in old : o.name \notin NamesOf(rec) => Logged(s, "delete", o.name)
            /\ \A r \in rec : r.name \notin NamesOf(old) => r \in new /\ Logged(s, "insert", r.name)
            /\ \A o \in old : o.name \in NamesOf(rec) =>
                 IF \A r \in rec : r.name = o.name => equalDep(o, r)
                 THEN o \in new /\ Untouched(s, o.name)
                 ELSE /\ \E r \in rec : r.name = o.name /\ r \in new /\ ~ equalDep(o, r)
                      /\ Logged(s, "delete", o.name)
                      /\ Logged(s, "insert", o.name)

\* A reconcile that replaced one dependency and left another one alone.
C1_Witness ==
    \E p \in Procs :
        LET s == st[p]
            old == StoredDeps(s.pre, s.name, s.version)
        IN  /\ Returned(s, "StoreDependencies") /\ s.err = "" /\ Stored(s.pre, s.name, s.version)
            /\ \E o1, o2 \in old :
                 /\ Logged(s, "delete", o1.name) /\ Logged(s, "insert", o1.name)
                 /\ o1 \notin StoredDeps(db, s.name, s.version)
                 /\ Untouched(s, o2.name)
                 /\ o2 \in StoredDeps(db, s.name, s.version)

(* C2: a StoreDependencies call that returns an error, in insert mode or   *)
(* in update mode, leaves the database exactly as it was before the call.  *)
C2_StoreAllOrNothing ==
    \A p \in Procs :
        ( Returned(st[p], "StoreDependencies") /\ st[p].err # "" ) => db = st[p].pre

\* An update that deleted and inserted rows before an insert hit
\* UNIQUE(project_id, dependency_name).
C2_Witness ==
    \E p \in Procs :
        /\ Returned(st[p], "StoreDependencies")
        /\ st[p].err = "constraint"
        /\ st[p].mode = "update"
        /\ Logged(st[p], "delete", "x") /\ Logged(st[p], "insert", "x")

(* C3: a StoreDependencies call never returns ErrProjectNotFound, also    *)
(* when a DeleteProject of the same (name, version) runs concurrently.     *)
C3_StoreNeverProjectNotFound ==
    \A p \in Procs :
        ~ ( Returned(st[p], "StoreDependencies") /\ st[p].err = "ErrProjectNotFound" )

(* C4: a StoreDependencies whose dependency list is the one already stored *)
(* for the project inserts and deletes no dependency row; its only write   *)
(* sets the project's updated_at to the record's value.                    *)
C4_IdenticalListOnlyTimestamp ==
    \A p \in Procs :
        LET s == st[p]
        IN  ( /\ Returned(s, "StoreDependencies") /\ s.err = ""
              /\ Stored(s.pre, s.name, s.version)
              /\ StoredDeps(s.pre, s.name, s.version) = ListSet(s.deps)
              /\ Cardinality(ListSet(s.deps)) = Len(s.deps) )
            =>
            /\ s.log = <<>>
            /\ db.dependency = s.pre.dependency
            /\ db.seq = s.pre.seq
            /\ db.projects =
                 { IF r.name = s.name /\ r.version = s.version
                   THEN [ id |-> r.id, name |-> r.name, version |-> r.version,
                          updated_at |-> s.updatedAt ]
                   ELSE r : r \in s.pre.projects }

\* The second store of the same two dependencies, with a new timestamp,
\* next to another stored project.
C4_Witness ==
    \E p \in Procs :
        LET s == st[p]
        IN  /\ Returned(s, "StoreDependencies") /\ s.err = ""
            /\ Len(s.deps) = 2
            /\ StoredDeps(s.pre, s.name, s.version) = ListSet(s.deps)
            /\ Cardinality(s.pre.projects) = 2
            /\ \E r \in s.pre.projects :
                 r.name = s.name /\ r.version = s.version /\ r.updated_at # s.updatedAt
            /\ db # s.pre

(* C5: a successful StoreDependencies for a (name, version) that is not    *)
(* stored adds exactly one project row, with a fresh id and the record's   *)
(* updated_at, and exactly one dependency row per entry of the record;     *)
(* every other row, another version of the same name included, stays.      *)
C5_InsertNewProject ==
    \A p \in Procs :
        LET s == st[p]
        IN  ( Returned(s, "StoreDependencies") /\ s.err = "" /\ ~ Stored(s.pre, s.name, s.version) )
            =>
            \E row \in db.projects :
                /\ row.name = s.name /\ row.version = s.version
                /\ row.updated_at = s.updatedAt
                /\ row.id > s.pre.seq
                /\ db.projects = s.pre.projects \cup { row }
                /\ Cardinality(db.projects) = Cardinality(s.pre.projects) + 1
                /\ \A r \in s.pre.dependency : r.project_id # row.id
                /\ db.dependency = s.pre.dependency \cup
                     { [ project_id |-> row.id, dependency_name |-> s.deps[i].name,
                         score |-> s.deps[i].score, updated_at |-> s.deps[i].updated_at ] :
                       i \in DOMAIN s.deps }
                /\ Cardinality({ r \in db.dependency : r.project_id = row.id }) = Len(s.deps)

\* A project stored with two dependencies after the only project stored so
\* far had been deleted.
C5_Witness ==
    \E p \in Procs :
        LET s == st[p]
        IN  /\ Returned(s, "StoreDependencies") /\ s.err = ""
            /\ s.pre.projects = {} /\ s.pre.seq = 1
            /\ Len(s.deps) = 2
            /\ Cardinality(db.dependency) = 2

UniqueRows(d) ==
    /\ \A r1, r2 \in d.projects :
         (r1.name = r2.name /\ r1.version = r2.version) => r1 = r2
    /\ \A q1, q2 \in d.dependency :
         (q1.project_id = q2.project_id /\ q1.dependency_name = q2.dependency_name) => q1 = q2

(* C6: in every reachable state, under every interleaving of the           *)
(* statements of concurrent calls, the database - and every transaction's  *)
(* view of it - has at most one project row per (name, version) and at     *)
(* most one dependency row per (project, dependency name).                 *)
C6_UniqueRows ==
    /\ UniqueRows(db)
    /\ \A p \in Procs : UniqueRows(st[p].w)

\* Two StoreDependencies calls for the same new (name, version), both
\* started on the empty database, both returned success.
C6_Witness ==
    /\ \A p \in Procs :
         /\ Returned(st[p], "StoreDependencies") /\ st[p].err = ""
         /\ st[p].pre = EmptyDB
    /\ st[1].name = st[2].name /\ st[1].version = st[2].version
    /\ Cardinality(db.projects) = 1

(* C7: a successful DeleteProject removes the project row of (name,        *)
(* version) and all dependency rows of that project and nothing else.      *)
C7_DeleteProjectFrame ==
    \A p \in Procs :
        LET s == st[p]
        IN  ( Returned(s, "DeleteProject") /\ s.err = "" )
            =>
            \E row \in s.pre.projects :
                /\ row.name = s.name /\ row.version = s.version
                /\ db.projects = s.pre.projects \ { row }
                /\ db.dependency = { r \in s.pre.dependency : r.project_id # row.id }
                /\ db.seq = s.pre.seq

\* One of two stored versions of the same name is deleted; both had
\* dependencies.
C7_Witness ==
    \E p \in Procs :
        LET s == st[p]
        IN  /\ Returned(s, "DeleteProject") /\ s.err = ""
            /\ StoredDeps(s.pre, s.name, s.version) # {}
            /\ \E o \in db.projects :
                 /\ o.name = s.name /\ o.version # s.version
                 /\ StoredDeps(db, o.name, o.version) # {}

(* C8: ListProjectDependencies, DeleteProject, AddDependency,              *)
(* UpdateDependency and DeleteDependency for a (name, version) without a   *)
(* project row change nothing and, unless a statement itself returned an   *)
(* error first, fail with ErrProjectNotFound.                              *)
C8_ProjectNotFound ==
    \A p \in Procs :
        LET s == st[p]
        IN  ( /\ s.pc = "done"
              /\ s.op \in { "ListProjectDependencies", "DeleteProject", "AddDependency",
                           "UpdateDependency", "DeleteDependency" }
              /\ ~ Stored(s.pre, s.name, s.version) )
            =>
            /\ db = s.pre
            /\ s.err \in { "ErrProjectNotFound", "error" }

\* AddDependency to a project that was stored and then deleted.
C8_Witness ==
    \E p \in Procs :
        LET s == st[p]
        IN  /\ Returned(s, "AddDependency") /\ s.err = "ErrProjectNotFound"
            /\ s.pre.projects = {} /\ s.pre.seq = 1
            /\ calls[p] = 2

----------------------------------------------------------------------------
(* Properties of the diff engine *)

\* Every entry of l is equal, under equalDep, to the last entry of its name.
AgreesWithLast(l) ==
    \A i, j \in DOMAIN l :
        ( l[i].name = l[j].name /\ \A k \in DOMAIN l : l[k].name = l[i].name => k <= j )
        => equalDep(l[i], l[j])

\* No name occurs in l with two different values.
NoConflict(l) == \A i, j \in DOMAIN l : l[i].name = l[j].name => l[i] = l[j]

(* C9: DiffDependencies(A, A) returns two empty lists for every list A in  *)
(* which each entry is equal (name, score within eps, updatedAt) to the    *)
(* last entry of its name, so for every list without a repeated name.      *)
C9_DiffSelfEmpty ==
    ( dPc = "diffed" /\ dA = dB /\ AgreesWithLast(dA) ) => ( onlyA = <<>> /\ onlyB = <<>> )

\* A list that repeats a name within the tolerance, diffed against itself.
C9_Witness ==
    /\ dPc = "diffed" /\ dA = dB /\ AgreesWithLast(dA)
    /\ Len(dA) = 2 /\ dA[1].name = dA[2].name /\ dA[1] # dA[2]
    /\ onlyA = <<>> /\ onlyB = <<>>

(* C9 as claimed: DiffDependencies(A, A) returns two empty lists for any   *)
(* list A, lists that repeat a name included.                              *)
C9_DiffSelfEmptyAnyList ==
    ( dPc = "diffed" /\ dA = dB ) => ( onlyA = <<>> /\ onlyB = <<>> )

(* C10: for lists A and B in which no name occurs with two different       *)
(* values, reordering A or B leaves both outputs unchanged as sets; for    *)
(* all lists, DiffDependencies(B, A) returns the outputs of                *)
(* DiffDependencies(A, B) exchanged.                                       *)
C10_DiffOrderAndSwap ==
    [][ /\ ( dPc' = "shuffled" /\ NoConflict(dA) /\ NoConflict(dB) )
           => ( ListSet(onlyA') = ListSet(onlyA) /\ ListSet(onlyB') = ListSet(onlyB) )
        /\ dPc' = "swapped" => ( onlyA' = onlyB /\ onlyB' = onlyA ) ]_vars

\* Two-entry lists without repeated names, one reordered, with a non-empty
\* difference on both sides.
C10_Witness ==
    /\ dPc = "shuffled"
    /\ NoConflict(dA) /\ NoConflict(dB)
    /\ Len(dA) = 2 /\ Len(dB) = 2
    /\ onlyA # <<>> /\ onlyB # <<>>

(* C10 as claimed: for all lists A and B, reordering A or B leaves both    *)
(* outputs unchanged as sets and exchanging A and B exchanges the outputs. *)
C10_DiffOrderAndSwapAnyList ==
    [][ /\ dPc' = "shuffled"
           => ( ListSet(onlyA') = ListSet(onlyA) /\ ListSet(onlyB') = ListSet(onlyB) )
        /\ dPc' = "swapped" => ( onlyA' = onlyB /\ onlyB' = onlyA ) ]_vars

\* Same name, scores within 1e-9 of each other, same updatedAt.
SameDependency(d, e) ==
    /\ d.name = e.name
    /\ d.score - e.score <= 1 /\ e.score - d.score <= 1
    /\ d.updated_at = e.updated_at

LastOfName(l, n) ==
    l[ CHOOSE i \in DOMAIN l : l[i].name = n /\ \A j \in DOMAIN l : l[j].name = n => j <= i ]

NoRepeat(l) == \A i, j \in DOMAIN l : l[i].name = l[j].name => i = j

\* The entries of side that belong in its output, when every entry is
\* compared with the last entry of its name on the other side.
BelongsInOutput(d, other) ==
    ~ HasName(other, d.name) \/ ~ SameDependency(d, LastOfName(other, d.name))

Occurrences(l, d) == Cardinality({ i \in DOMAIN l : l[i] = d })

(* C11: DiffDependencies puts an entry of one side into that side's output *)
(* if and only if the other side has no entry of that name or the LAST     *)
(* entry of that name on the other side is not equal to it (same name,     *)
(* scores within 1e-9, same updatedAt); the outputs hold nothing else; and *)
(* for lists without repeated names a name present on both sides with      *)
(* unequal values appears in both outputs, once with each side's value.    *)
C11_DiffMembership ==
    dPc = "diffed" =>
        /\ \A i \in DOMAIN dA : ( dA[i] \in ListSet(onlyA) ) <=> BelongsInOutput(dA[i], dB)
        /\ \A j \in DOMAIN dB : ( dB[j] \in ListSet(onlyB) ) <=> BelongsInOutput(dB[j], dA)
        /\ ListSet(onlyA) \subseteq ListSet(dA)
        /\ ListSet(onlyB) \subseteq ListSet(dB)
        /\ ( NoRepeat(dA) /\ NoRepeat(dB) ) =>
             \A i \in DOMAIN dA, j \in DOMAIN dB :
                 ( dA[i].name = dB[j].name /\ ~ SameDependency(dA[i], dB[j]) ) =>
                     /\ Occurrences(onlyA, dA[i]) = 1
                     /\ Occurrences(onlyB, dB[j]) = 1
                     /\ \A k \in DOMAIN onlyA : onlyA[k].name = dA[i].name => onlyA[k] = dA[i]
                     /\ \A k \in DOMAIN onlyB : onlyB[k].name = dB[j].name => onlyB[k] = dB[j]

\* Two lists without repeated names: one name differs in score beyond the
\* tolerance and is in both outputs, the other name is equal and in none.
C11_Witness ==
    /\ dPc = "diffed"
    /\ NoRepeat(dA) /\ NoRepeat(dB) /\ Len(dA) = 2 /\ Len(dB) = 2
    /\ Len(onlyA) = 1 /\ Len(onlyB) = 1
    /\ onlyA[1].name = onlyB[1].name
    /\ onlyA[1].score # onlyB[1].score

(* C11 as claimed: an entry of one side is in that side's output if and    *)
(* only if the other side has no entry of that name or has some entry of   *)
(* that name that is not equal to it.                                      *)
C11_DiffMembershipAnyEntry ==
    dPc = "diffed" =>
        /\ \A i \in DOMAIN dA :
             ( dA[i] \in ListSet(onlyA) ) <=>
                 \/ ~ HasName(dB, dA[i].name)
                 \/ \E j \in DOMAIN dB : dB[j].name = dA[i].name /\ ~ SameDependency(dA[i], dB[j])
        /\ \A j \in DOMAIN dB :
             ( dB[j] \in ListSet(onlyB) ) <=>
                 \/ ~ HasName(dA, dB[j].name)
                 \/ \E i \in DOMAIN dA : dA[i].name = dB[j].name /\ ~ SameDependency(dB[j], dA[i])

----------------------------------------------------------------------------
(* Properties of the queries and of the single-row edits *)

(* C12: a GetDependenciesByExactScore(s) that returns without error        *)
(* returns exactly the dependency names that have, in any stored project,  *)
(* a row whose score is within 1e-9 of s, each name once - the empty list  *)
(* when no row matches - and changes nothing; the only error it returns is *)
(* that of a failed query.                                                 *)
C12_NamesByScore ==
    \A p \in Procs :
        LET s == st[p]
            hit == { q \in s.pre.dependency : q.score - s.score <= 1 /\ s.score - q.score <= 1 }
        IN  Returned(s, "GetDependenciesByExactScore") =>
                /\ s.err \in { "", "error" }
                /\ db = s.pre
                /\ s.err = "" =>
                     /\ ListSet(s.out) = { q.dependency_name : q \in hit }
                     /\ Len(s.out) = Cardinality(ListSet(s.out))

\* The same name stored in two projects with two scores, both within the
\* tolerance of the score asked for, is returned once.
C12_Witness ==
    \E p \in Procs :
        LET s == st[p]
        IN  /\ Returned(s, "GetDependenciesByExactScore") /\ s.err = ""
            /\ \E q1, q2 \in s.pre.dependency :
                 /\ q1.project_id # q2.project_id
                 /\ q1.dependency_name = "x" /\ q2.dependency_name = "x"
                 /\ q1.score = s.score /\ q2.score = s.score + 1
            /\ s.out = << "x" >>

----------------------------------------------------------------------------
(* Properties of FetchAndStoreProjectDependencies *)

\* GetProjectDependencies succeeded and every node it returned is SELF.
NoNodeRemains ==
    /\ sv.pc \in { "getVersionsBatch", "store", "storing", "done" }
    /\ sv.remote = << "GetProjectDependencies" >>
    /\ sv.err.stage # "GetProjectDependencies"
    /\ \A i \in DOMAIN sv.nodes : sv.nodes[i].relation = "SELF"

\* GetVersionsBatch succeeded and no response has a SOURCE_REPO project.
NoSourceRepo ==
    /\ sv.pc \in { "getProjectsBatch", "store", "storing", "done" }
    /\ sv.remote = << "GetProjectDependencies", "GetVersionsBatch" >>
    /\ sv.err.stage # "GetVersionsBatch"
    /\ \A i \in DOMAIN sv.batch : \A k \in DOMAIN sv.batch[i].relatedProjects :
         sv.batch[i].relatedProjects[k].relationType # "SOURCE_REPO"

(* C13: when no node remains after filtering, or no version response has   *)
(* a SOURCE_REPO project, the call issues no further remote call, calls    *)
(* StoreDependencies once with an empty dependency list and returns what   *)
(* it returns: on success the project is stored with no dependencies (also *)
(* when it was stored with some before), on a storage failure the database *)
(* is unchanged.                                                           *)
C13_EmptyPathsStoreEmpty ==
    ( NoNodeRemains \/ NoSourceRepo ) =>
        /\ sv.pc \in { "store", "storing", "done" }
        /\ sv.dependencyScores = <<>>
        /\ sv.pc \in { "storing", "done" } =>
             sv.stores = << [ name |-> sv.projectName, version |-> sv.version,
                              updatedAt |-> sv.now, deps |-> <<>> ] >>
        /\ sv.pc = "done" =>
             IF st[1].err = ""
             THEN /\ sv.err = NoErr
                  /\ StoredDeps(db, sv.projectName, sv.version) = {}
                  /\ \E r \in db.projects :
                       /\ r.name = sv.projectName /\ r.version = sv.version
                       /\ r.updated_at = sv.now
                       /\ \A q \in db.dependency : q.project_id # r.id
             ELSE /\ sv.err = Failure("StoreDependencies", st[1].err, TRUE)
                  /\ db = sv.pre

\* A stored project with a dependency is ingested again; its only node maps
\* to no source repository, and it ends stored without dependencies.
C13_Witness ==
    /\ NoSourceRepo
    /\ sv.pc = "done" /\ sv.err = NoErr
    /\ Len(sv.batch) >= 1
    /\ StoredDeps(sv.pre, sv.projectName, sv.version) # {}
    /\ Stored(db, sv.projectName, sv.version)
    /\ StoredDeps(db, sv.projectName, sv.version) = {}

(* C14: when GetProjectDependencies, GetVersionsBatch or GetProjectsBatch  *)
(* returns an error, the call returns that error at once, StoreDependencies *)
(* is never called and the database is what it was before the call.        *)
C14_RemoteErrorAborts ==
    sv.failed # "" =>
        /\ sv.pc = "done"
        /\ sv.err.cause = sv.failed
        /\ sv.err.stage = sv.remote[Len(sv.remote)]
        /\ sv.stores = <<>>
        /\ st[1] = Idle
        /\ db = sv.pre

\* The third remote call fails for a project that is stored with a
\* dependency.
C14_Witness ==
    /\ sv.failed # ""
    /\ sv.pc = "done"
    /\ sv.remote = << "GetProjectDependencies", "GetVersionsBatch", "GetProjectsBatch" >>
    /\ StoredDeps(sv.pre, sv.projectName, sv.version) # {}
    /\ db = sv.pre

\* The project (n, v) has a dependency named dn in database d.
HasDependency(d, n, v, dn) == dn \in NamesOf(StoredDeps(d, n, v))

ProjectIdOf(d, n, v) == (CHOOSE r \in d.projects : r.name = n /\ r.version = v).id

(* C15: an AddDependency for a (project, dependency name) pair that is     *)
(* stored leaves the database unchanged and fails with                     *)
(* ErrDependencyAlreadyExists (or with the error of a statement that       *)
(* failed before the insert).                                              *)
C15_AddDuplicateAlreadyExists ==
    \A p \in Procs :
        LET s == st[p]
        IN  ( Returned(s, "AddDependency") /\ HasDependency(s.pre, s.name, s.version, s.dep.name) )
            =>
            /\ db = s.pre
            /\ s.err \in { "ErrDependencyAlreadyExists", "error" }

(* C16: UpdateDependency and DeleteDependency on a stored project that has *)
(* no dependency of the given name leave the database unchanged and fail   *)
(* with ErrDependencyNotFound (or with the error of a failed statement),   *)
(* also when another project has a dependency of that name.                *)
C16_DependencyNotFound ==
    \A p \in Procs :
        LET s == st[p]
        IN  ( /\ s.pc = "done"
              /\ s.op \in { "UpdateDependency", "DeleteDependency" }
              /\ Stored(s.pre, s.name, s.version)
              /\ ~ HasDependency(s.pre, s.name, s.version, s.dep.name) )
            =>
            /\ db = s.pre
            /\ s.err \in { "ErrDependencyNotFound", "error" }

\* UpdateDependency of a name that only another project has.
C16_Witness ==
    \E p \in Procs :
        LET s == st[p]
        IN  /\ Returned(s, "UpdateDependency") /\ s.err = "ErrDependencyNotFound"
            /\ Stored(s.pre, s.name, s.version)
            /\ \E q \in s.pre.dependency :
                 /\ q.dependency_name = s.dep.name
                 /\ q.project_id # ProjectIdOf(s.pre, s.name, s.version)
                 /\ q.score # s.dep.score

(* C17: a successful AddDependency adds exactly the row (project, name,    *)
(* score, updatedAt); a successful UpdateDependency replaces exactly the   *)
(* row of (project, name) by one with the given score and updatedAt; a     *)
(* successful DeleteDependency removes exactly that row.  Every other      *)
(* dependency row, every project row and the id sequence stay unchanged.   *)
C17_SingleRowEdits ==
    \A p \in Procs :
        LET s == st[p]
            pid == ProjectIdOf(s.pre, s.name, s.version)
            old == { q \in s.pre.dependency :
                       q.project_id = pid /\ q.dependency_name = s.dep.name }
            new == [ project_id |-> pid, dependency_name |-> s.dep.name,
                     score |-> s.dep.score, updated_at |-> s.dep.updated_at ]
        IN  ( /\ s.pc = "done" /\ s.err = ""
              /\ s.op \in { "AddDependency", "UpdateDependency", "DeleteDependency" } )
            =>
            /\ Stored(s.pre, s.name, s.version)
            /\ db.projects = s.pre.projects
            /\ db.seq = s.pre.seq
            /\ s.op = "AddDependency" =>
                 old = {} /\ db.dependency = s.pre.dependency \cup { new }
            /\ s.op = "UpdateDependency" =>
                 Cardinality(old) = 1 /\ db.dependency = (s.pre.dependency \ old) \cup { new }
            /\ s.op = "DeleteDependency" =>
                 Cardinality(old) = 1 /\ db.dependency = s.pre.dependency \ old

\* UpdateDependency changes the updatedAt of one of two dependencies of a
\* project.
C17_Witness ==
    \E p \in Procs :
        LET s == st[p]
        IN  /\ Returned(s, "UpdateDependency") /\ s.err = ""
            /\ Cardinality(StoredDeps(s.pre, s.name, s.version)) = 2
            /\ \E o \in StoredDeps(s.pre, s.name, s.version) :
                 o.name = s.dep.name /\ o.updated_at # s.dep.updated_at
            /\ s.dep \in StoredDeps(db, s.name, s.version)

\* The three remote calls have succeeded and the dependency list is built;
\* the map and the project responses are still at hand.
ListBuilt ==
    /\ sv.pc = "store"
    /\ Len(sv.remote) = 3
    /\ sv.failed = ""

\* (response i, position k): the k-th name mapped to the repository of the
\* i-th project response.
ScorePairs ==
    UNION { { <<i, k>> : k \in DOMAIN sv.deps[sv.projectsBatch[i].id] } :
            i \in { j \in DOMAIN sv.projectsBatch : sv.projectsBatch[j].id \in DOMAIN sv.deps } }

PairName(pr) == sv.deps[sv.projectsBatch[pr[1]].id][pr[2]]

PairScore(pr) == sv.projectsBatch[pr[1]].overallScore

\* The Unix timestamp of a scorecard date, 0 for the zero date.
PairUpdatedAt(pr) ==
    LET date == sv.projectsBatch[pr[1]].date
    IN  IF date = 0 THEN 0 ELSE date - unixToInternal

(* C18: the dependency list built from the project responses holds, for    *)
(* each response whose repository identifier is in the map, one entry per  *)
(* name mapped to it, with the response's overall score, and nothing else; *)
(* StoreDependencies is then called exactly once, with the project name    *)
(* and version as given, updatedAt = now of the injected clock and that    *)
(* list.                                                                   *)
C18_RecordHandedToStorage ==
    /\ ListBuilt =>
         /\ Len(sv.dependencyScores) = Cardinality(ScorePairs)
         /\ \A n \in DepNames, sc \in { 0, 1, 2 } :
              Cardinality({ i \in DOMAIN sv.dependencyScores :
                              sv.dependencyScores[i].name = n /\ sv.dependencyScores[i].score = sc })
              = Cardinality({ pr \in ScorePairs : PairName(pr) = n /\ PairScore(pr) = sc })
    /\ ( sv.pc \in { "storing", "done" } /\ Len(sv.remote) = 3 /\ sv.failed = "" ) =>
         /\ sv.stores = << [ name |-> sv.projectName, version |-> sv.version,
                             updatedAt |-> sv.now, deps |-> sv.dependencyScores ] >>
         /\ st[1].op = "StoreDependencies"
         /\ st[1].name = sv.projectName /\ st[1].version = sv.version
         /\ st[1].updatedAt = sv.now
         /\ st[1].deps = sv.dependencyScores
    /\ sv.pc \notin { "storing", "done" } => sv.stores = <<>>
    /\ Len(sv.stores) <= 1

\* A successful call whose record holds two names backed by one repository,
\* both with that repository's score.
C18_Witness ==
    /\ sv.pc = "done" /\ sv.err = NoErr /\ Len(sv.remote) = 3
    /\ Len(sv.stores) = 1
    /\ Len(sv.stores[1].deps) = 2
    /\ sv.stores[1].deps[1].name # sv.stores[1].deps[2].name
    /\ sv.stores[1].deps[1].score = 2 /\ sv.stores[1].deps[2].score = 2
    /\ Cardinality(StoredDeps(db, sv.projectName, sv.version)) = 2

(* C19: the updatedAt of every entry of the built list is the Unix         *)
(* timestamp of the scorecard date of the project response it was built    *)
(* from, and 0 when that date is the zero date; the list handed to         *)
(* StoreDependencies is that list.                                         *)
C19_UpdatedAtFromScorecard ==
    /\ ListBuilt =>
         /\ \A i \in DOMAIN sv.dependencyScores :
              \E pr \in ScorePairs :
                  /\ PairName(pr) = sv.dependencyScores[i].name
                  /\ PairScore(pr) = sv.dependencyScores[i].score
                  /\ PairUpdatedAt(pr) = sv.dependencyScores[i].updated_at
         /\ \A pr \in ScorePairs :
              \E i \in DOMAIN sv.dependencyScores :
                  /\ PairName(pr) = sv.dependencyScores[i].name
                  /\ PairScore(pr) = sv.dependencyScores[i].score
                  /\ PairUpdatedAt(pr) = sv.dependencyScores[i].updated_at
    /\ \A i \in DOMAIN sv.stores :
         /\ sv.stores[i].deps = sv.dependencyScores
         /\ \A k \in DOMAIN sv.stores[i].deps : sv.stores[i].deps[k].updated_at \in { 0, 5 }

\* One repository reports the zero date, another a real date: the list has
\* an entry with updatedAt 0 and one with the date's Unix timestamp.
C19_Witness ==
    /\ ListBuilt
    /\ \E p1, p2 \in ScorePairs :
         /\ sv.projectsBatch[p1[1]].date = 0
         /\ sv.projectsBatch[p2[1]].date = unixToInternal + 5
    /\ \E i, j \in DOMAIN sv.dependencyScores :
         /\ sv.dependencyScores[i].updated_at = 0
         /\ sv.dependencyScores[j].updated_at = 5

\* The versions batch has returned and the map is built.
MapBuilt ==
    /\ sv.pc \in { "getProjectsBatch", "store" }
    /\ sv.remote = << "GetProjectDependencies", "GetVersionsBatch" >>
    /\ sv.failed = ""

\* The k-th related project is the first SOURCE_REPO of the list.
IsFirstSource(rel, k) ==
    /\ rel[k].relationType = "SOURCE_REPO"
    /\ \A j \in 1 .. (k - 1) : rel[j].relationType # "SOURCE_REPO"

\* The i-th version response maps its name to repository id.
MapsTo(i, id) ==
    \E k \in DOMAIN sv.batch[i].relatedProjects :
        IsFirstSource(sv.batch[i].relatedProjects, k) /\ sv.batch[i].relatedProjects[k].id = id

NamesMappedTo(id) ==
    LET Hit(i) == MapsTo(i, id)
        idx == SelectSeq([ i \in 1 .. Len(sv.batch) |-> i ], Hit)
    IN  [ k \in 1 .. Len(idx) |-> sv.batch[idx[k]].name ]

(* C20: the map built from the versions batch sends each repository to the *)
(* names of the responses whose first SOURCE_REPO related project it is,   *)
(* in response order; a response contributes its name to one repository at *)
(* most, and a response without a SOURCE_REPO entry contributes nothing.   *)
C20_FirstSourceRepo ==
    MapBuilt =>
        /\ DOMAIN sv.deps = { id \in { "r1", "r2" } : \E i \in DOMAIN sv.batch : MapsTo(i, id) }
        /\ \A id \in DOMAIN sv.deps : sv.deps[id] = NamesMappedTo(id)
        /\ Cardinality(UNION { { <<id, k>> : k \in DOMAIN sv.deps[id] } : id \in DOMAIN sv.deps })
             = Cardinality({ i \in DOMAIN sv.batch :
                               \E k \in DOMAIN sv.batch[i].relatedProjects :
                                   sv.batch[i].relatedProjects[k].relationType = "SOURCE_REPO" })

\* One response lists two SOURCE_REPO projects and is mapped to the first
\* only; another response lists none.
C20_Witness ==
    /\ MapBuilt
    /\ sv.pc = "getProjectsBatch"
    /\ Len(sv.batch) = 2
    /\ sv.batch[1].relatedProjects = << Related("r2", "SOURCE_REPO"), Related("r1", "SOURCE_REPO") >>
    /\ sv.batch[2].relatedProjects = << Related("r1", "ISSUE_TRACKER") >>
    /\ DOMAIN sv.deps = { "r2" }
    /\ sv.deps["r2"] = << sv.batch[1].name >>

----------------------------------------------------------------------------
\* GetProjectDependencies has returned its nodes and the batch for
\* GetVersionsBatch is built.
BatchBuilt ==
    /\ sv.pc \in { "getVersionsBatch", "store" }
    /\ sv.remote = << "GetProjectDependencies" >>
    /\ sv.failed = ""

NodePair(d) == << d.system, d.name >>

\* The first node of the response that is not SELF and has the pair pr.
FirstNodeOf(pr) ==
    CHOOSE i \in DOMAIN sv.nodes :
        /\ sv.nodes[i].relation # "SELF" /\ NodePair(sv.nodes[i]) = pr
        /\ \A j \in 1 .. (i - 1) : sv.nodes[j].relation = "SELF" \/ NodePair(sv.nodes[j]) # pr

(* C21: the batch passed to GetVersionsBatch holds no SELF node and exactly *)
(* one entry per distinct (system, name) pair among the other nodes: the   *)
(* first node of that pair in node order, with its version; nodes of       *)
(* different pairs are never merged.                                       *)
C21_BatchOnePerPair ==
    BatchBuilt =>
        LET pairs == { NodePair(sv.nodes[i]) : i \in { j \in DOMAIN sv.nodes : sv.nodes[j].relation # "SELF" } }
            pd == sv.projectDependencies
        IN  /\ Len(pd) = Cardinality(pairs)
            /\ \A pr \in pairs :
                  \E k \in DOMAIN pd :
                      /\ NodePair(pd[k]) = pr
                      /\ pd[k].version = sv.nodes[FirstNodeOf(pr)].version
            /\ \A k, l \in DOMAIN pd : NodePair(pd[k]) = NodePair(pd[l]) => k = l

----------------------------------------------------------------------------
Responded == rq.pc = "responded"

ServiceFailed == rq.called /\ rq.serviceErr # NoErr

\* The request body cannot be decoded, or a required field is empty.
BadInput ==
    \/ DecodesJSON(rq.handler) /\ rq.json = "bad"
    \/ HasRequired(rq.handler) /\ rq.required = "empty"

----------------------------------------------------------------------------
\* The stored projects of database d that have a dependency named n.
ProjectsWith(d, n) ==
    { Project(pr.name, pr.updated_at, pr.version) :
        pr \in { r \in d.projects :
                   \E q \in d.dependency : q.project_id = r.id /\ q.dependency_name = n } }

(* C23: GetProjectsByDependency(depName) returns exactly the stored        *)
(* projects that have a dependency named depName, each once, and fails     *)
(* with ErrProjectNotFound when there is none; its only other outcome is   *)
(* the error of a failed query.                                            *)
C23_ProjectsByDependency ==
    \A p \in Procs :
        LET s == st[p]
            want == ProjectsWith(s.pre, s.dep.name)
        IN  ( Returned(s, "GetProjectsByDependency") /\ db = s.pre ) =>
                /\ s.err \in { "", "ErrProjectNotFound", "error" }
                /\ s.err = "" =>
                     /\ want # {}
                     /\ ListSet(s.out) = want
                     /\ Len(s.out) = Cardinality(want)
                /\ s.err = "ErrProjectNotFound" <=> ( want = {} /\ s.err # "error" )
                /\ s.err # "" => s.out = <<>>

\* Two projects are stored, one of them has the dependency asked for and
\* is the one returned.
C23_Witness ==
    \E p \in Procs :
        LET s == st[p]
        IN  /\ Returned(s, "GetProjectsByDependency") /\ s.err = ""
            /\ Cardinality(db.projects) = 2
            /\ Len(s.out) = 1
            /\ \E pr \in db.projects :
                 /\ Project(pr.name, pr.updated_at, pr.version) \notin ListSet(s.out)
                 /\ \E q \in db.dependency : q.project_id = pr.id

----------------------------------------------------------------------------
\* The remote calls of the pipeline in the order of the code.
CallOrder == << "GetProjectDependencies", "GetVersionsBatch", "GetProjectsBatch" >>

IsPrefix(a, b) == Len(a) <= Len(b) /\ \A i \in DOMAIN a : a[i] = b[i]

\* A remote call or StoreDependencies has been issued and has not returned.
InFlight == sv.pc \in { "versionsBatch", "projectsBatch", "storing" }

(* C24: within one FetchAndStoreProjectDependencies call the remote calls  *)
(* are issued in the order GetProjectDependencies, GetVersionsBatch,       *)
(* GetProjectsBatch, each at most once, each only when no call is in       *)
(* flight and none has failed; StoreDependencies is called at most once,   *)
(* only then, and no remote call follows it; after a failure nothing more  *)
(* is called.                                                              *)
C24_StrictlySequential ==
    [][ /\ IsPrefix(sv'.remote, CallOrder)
        /\ sv'.remote # sv.remote =>
             /\ Len(sv'.remote) = Len(sv.remote) + 1
             /\ sv.failed = "" /\ ~ InFlight /\ sv.stores = <<>>
        /\ sv'.stores # sv.stores =>
             /\ sv.stores = <<>> /\ Len(sv'.stores) = 1
             /\ sv.failed = "" /\ ~ InFlight
             /\ sv.remote # <<>>
        /\ ( sv.failed # "" \/ sv.stores # <<>> ) =>
             sv'.remote = sv.remote /\ sv'.stores = sv.stores
      ]_vars

\* The full path: three remote calls, then one StoreDependencies, which has
\* returned.
C24_Witness ==
    /\ sv.pc = "done"
    /\ sv.remote = CallOrder
    /\ Len(sv.stores) = 1
    /\ sv.failed = ""

----------------------------------------------------------------------------
----------------------------------------------------------------------------
\* StoreDependencies run alone on database d, statement by statement:
\* the database it leaves and whether it succeeds.
RECURSIVE InsertAll(_, _, _, _)
InsertAll(w, pid, l, i) ==
    IF i > Len(l) THEN [ db |-> w, ok |-> TRUE ]
    ELSE LET r == InsertDependencyRow(w, pid, l[i])
         IN  IF r.ok THEN InsertAll(r.db, pid, l, i + 1) ELSE [ db |-> w, ok |-> FALSE ]

RECURSIVE DeleteAll(_, _, _, _)
DeleteAll(w, pid, l, i) ==
    IF i > Len(l) THEN w
    ELSE DeleteAll(DeleteDependencyRow(w, pid, l[i].name).db, pid, l, i + 1)

StoreAlone(d, n, v, t, l) ==
    LET ins == InsertOrIgnoreProject(d, n, v, t)
    IN  IF ins.affected = 1
        THEN LET r == InsertAll(ins.db, ins.id, l, 1)
             IN  IF r.ok THEN r ELSE [ db |-> d, ok |-> FALSE ]
        ELSE LET id == getProjectIDTX(d, n, v)
                 cur == CHOOSE rows \in RowOrders(SelectDependencies(d, id)) : TRUE
                 dd == DiffDependencies(cur, l)
                 w == DeleteAll(UpdateProjectTimestamp(d, id, t), id, dd.onlyA, 1)
                 r == InsertAll(w, id, dd.onlyB, 1)
             IN  IF r.ok THEN r ELSE [ db |-> d, ok |-> FALSE ]

\* The stored state without the row ids.
Abstract(d) ==
    { [ name |-> pr.name, version |-> pr.version, updated_at |-> pr.updated_at,
        deps |-> StoredDeps(d, pr.name, pr.version) ] : pr \in d.projects }

BothReturned == \A p \in Procs : Returned(st[p], "StoreDependencies")

AloneOf(d, s) == StoreAlone(d, s.name, s.version, s.updatedAt, s.deps)

(* C26: two concurrent StoreDependencies calls for different (name,        *)
(* version) pairs both succeed exactly when each would succeed alone, and  *)
(* the final state is the state of running them one after the other, in    *)
(* either order.                                                           *)
C26_DifferentPairsIndependent ==
    ( world = "pairs" /\ BothReturned /\ st[1].version # st[2].version ) =>
        LET pre == st[1].pre
            a1 == AloneOf(pre, st[1])
            a2 == AloneOf(pre, st[2])
        IN  /\ \A p \in Procs : ( st[p].err = "" ) <=> AloneOf(pre, st[p]).ok
            /\ Abstract(db) = Abstract(AloneOf(a1.db, st[2]).db)
            /\ Abstract(db) = Abstract(AloneOf(a2.db, st[1]).db)

----------------------------------------------------------------------------
\* The stage that failed and the error it failed with.
FailedStage == IF sv.failed # "" THEN sv.remote[Len(sv.remote)] ELSE "StoreDependencies"

UnderlyingError == IF sv.failed # "" THEN sv.failed ELSE st[1].err

(* C27: every error FetchAndStoreProjectDependencies returns is the error  *)
(* of the failed client or storage call, wrapped with context that names   *)
(* the failed stage, and still matches that error, whichever of            *)
(* GetProjectDependencies, GetVersionsBatch, GetProjectsBatch and          *)
(* StoreDependencies failed.                                               *)
C27_ErrorsWrappedWithStage ==
    ( sv.pc = "done" /\ sv.err # NoErr ) =>
        /\ sv.err.wrapped
        /\ sv.err.stage = FailedStage
        /\ ErrorsIs(sv.err, UnderlyingError)

----------------------------------------------------------------------------
(* C28: whatever the remote service answers, the dependency list handed to *)
(* StoreDependencies holds no two entries of the same name.                *)
C28_NoDuplicateNames ==
    \A i \in DOMAIN sv.stores : NoRepeat(sv.stores[i].deps)

----------------------------------------------------------------------------
SameKey == st[1].name = st[2].name /\ st[1].version = st[2].version

\* The stored project row of the key of caller p.
RowOf(d, s) == CHOOSE r \in d.projects : r.name = s.name /\ r.version = s.version

\* The record of s is what is stored for its project, entry by entry up to
\* the tolerance of the diff, with the record's updated_at.
RecordStored(d, s) ==
    LET stored == StoredDeps(d, s.name, s.version)
    IN  /\ NamesOf(stored) = NamesOf(ListSet(s.deps))
        /\ Cardinality(stored) = Len(s.deps)
        /\ \A e \in stored : \E i \in DOMAIN s.deps : equalDep(e, s.deps[i])
        /\ RowOf(d, s).updated_at = s.updatedAt

(* C29: when two concurrent StoreDependencies calls for the same (name,    *)
(* version) both succeed, the final state is the state of running the two  *)
(* calls one after the other in one of the two orders: the stored          *)
(* dependencies are those of one record, entry by entry up to the          *)
(* tolerance of the diff (a stored entry whose score is within 1e-9 of the *)
(* record's is kept), and updated_at is the value of that same record.     *)
C29_OneRecordWins ==
    ( world = "pairs" /\ BothReturned /\ SameKey /\ \A p \in Procs : st[p].err = "" ) =>
        LET pre == st[1].pre
            s12 == AloneOf(AloneOf(pre, st[1]).db, st[2]).db
            s21 == AloneOf(AloneOf(pre, st[2]).db, st[1]).db
        IN  /\ \E p \in Procs : RecordStored(db, st[p])
            /\ Abstract(db) \in { Abstract(s12), Abstract(s21) }

\* Both calls found the project stored, both succeeded, and the record of
\* caller 1, which differs from that of caller 2, is what is stored.
C29_Witness ==
    /\ BothReturned /\ SameKey
    /\ \A p \in Procs : st[p].err = "" /\ st[p].mode = "update"
    /\ st[1].deps # st[2].deps /\ st[1].deps # <<>>
    /\ StoredDeps(db, st[1].name, st[1].version) = ListSet(st[1].deps)
    /\ RowOf(db, st[1]).updated_at = st[1].updatedAt
    /\ Logged(st[1], "delete", "x") /\ Logged(st[1], "insert", "x")

(* C29 as stated: when two concurrent StoreDependencies calls for the same *)
(* (name, version) both succeed, the stored dependency set of the project  *)
(* is the dependency list of one of the two records and its updated_at is  *)
(* the value of one of the two records.                                    *)
C29_OneRecordWinsExactly ==
    ( world = "pairs" /\ BothReturned /\ SameKey /\ \A p \in Procs : st[p].err = "" ) =>
        /\ \E p \in Procs : StoredDeps(db, st[p].name, st[p].version) = ListSet(st[p].deps)
        /\ \E p \in Procs : RowOf(db, st[p]).updated_at = st[p].updatedAt

----------------------------------------------------------------------------
NoOrphans(d) == \A r \in d.dependency : \E pr \in d.projects : pr.id = r.project_id

(* C30: in every reachable state, under every interleaving of              *)
(* StoreDependencies, DeleteProject, AddDependency, UpdateDependency and   *)
(* DeleteDependency, every dependency row of the database - and of every   *)
(* transaction's view of it - belongs to an existing project row.          *)
C30_NoOrphanDependencies ==
    /\ NoOrphans(db)
    /\ \A p \in Procs : NoOrphans(st[p].w)

\* While one caller deleted the project, the other one added a dependency
\* to it: both succeeded and no row is left.
C30_Witness ==
    \E p, q \in Procs :
        /\ Returned(st[p], "DeleteProject") /\ st[p].err = ""
        /\ Returned(st[q], "AddDependency") /\ st[q].err = ""
        /\ st[p].pre.dependency # {}
        /\ st[q].pre = st[p].pre
        /\ db.projects = {} /\ db.dependency = {}

====
